---------------------------- MODULE Spec2Model ----------------------------
(***************************************************************************)
(* State-machine model of parts of tao_tensorflow2_backend:                *)
(*   - cv/efficientdet/dataloader/datasource.py        (DataSource)        *)
(*   - nvidia_tao_tf2/cv/efficientdet/utils/hparams_config.py (Config)     *)
(*   - cv/classification/scripts/evaluate.py           (classmap handling) *)
(* Python values are tagged tuples <<tag, payload>>; Python strings that   *)
(* the code takes apart are sequences of lexemes.                          *)
(***************************************************************************)
EXTENDS Integers, Sequences, FiniteSets, TLC

VARIABLES
    ds_args,    \* DataSource: the constructor's arguments
    ds,         \* DataSource: the object (made, tfrecord_patterns, image_dirs, n)
    ds_exc,     \* DataSource: exception raised by the last call, or "none"
    ds_out,     \* DataSource: pairs returned by __next__ since the last __iter__
    ds_len,     \* DataSource: result of the last len() call
    ds_iters,   \* DataSource: number of __iter__ calls so far
    ds_first,   \* DataSource: <<>> or <<s>>, s the output of the first complete iteration
    ds_pc,      \* DataSource: "start" before the constructor call, "called" after it
    ds_partial, \* DataSource: some iteration was abandoned part-way
    cfg,        \* Config: the object, as the item sequence of its __dict__
    cfg_old,    \* Config: the object as it was before the override call
    cfg_arg,    \* Config: the value passed to override
    cfg_allow,  \* Config: the allow_new_keys argument of the override call
    cfg_exc,    \* Config: exception raised by the override call, or "none"
    cfg_pc,     \* Config: "ready" before the override call, "done" after it
    det_name,   \* get_detection_config: the model_name argument
    det_ret,    \* get_detection_config: exception, raising function, returned Config
    det_pc,     \* get_detection_config: "ready" before the call, "done" after it
    cm_data,    \* run_evaluate: the object json.load read from the classmap file
    cm_exc,     \* run_evaluate: exception raised while building class_names
    cm_names,   \* run_evaluate: class_names
    cm_pc,      \* run_evaluate: "ready" before the classmap block, "done" after it
    cmr_file,   \* run_evaluate: the classmap file (whether it exists, its bytes)
    cmr_out,    \* run_evaluate: escaped exception, exit code, data after the read
    cmr_pc,     \* run_evaluate: "ready" before the classmap read, "done" after it
    bg_list,    \* batch_generator: the iterable argument
    bg_size,    \* batch_generator: the batch_size argument
    bg_ndx,     \* batch_generator: the loop variable ndx
    bg_out,     \* batch_generator: the batches yielded so far
    bg_exc,     \* batch_generator: exception raised by next(), or "none"
    bg_pc,      \* batch_generator: "created", "suspended" at a yield, "finished"
    ld_file,    \* get_label_dict: the characters of the label file
    ld_ret,     \* get_label_dict: the returned dict, as a function of its keys
    ld_pc,      \* get_label_dict: "ready" before the call, "done" after it
    gm_arch,    \* get_model: the arch argument
    gm_kwargs_ok, \* get_model: kwargs holds the keys the arch's branch reads
    gm_ret,     \* get_model: exception and its message, constructor called
    gm_pc,      \* get_model: "ready" before the call, "done" after it
    tp_pretrained, \* run_experiment: pretrained_model.layers
    tp_model,   \* run_experiment: the layers of model, by name
    tp_i,       \* run_experiment: position of the transplant loop in the layers
    tp_log,     \* run_experiment: what the transplant loop did with each layer
    tp_exc,     \* run_experiment: exception escaped from the transplant loop
    tp_pc,      \* run_experiment: transplant "loop", "done" or "aborted"
    ev_freq,    \* COCOEvalCallback: eval_freq
    ev_start,   \* COCOEvalCallback: start_eval_epoch
    ev_first,   \* COCOEvalCallback: index of the first epoch of the fit loop
    ev_epoch,   \* COCOEvalCallback: index of the epoch that ends next
    ev_evals,   \* COCOEvalCallback: the epoch arguments of the evaluate calls
    ev_exc,     \* COCOEvalCallback: exception raised by on_epoch_end
    inf_path,   \* inference main: cfg.inference.model_path
    inf_label_map, \* inference main: cfg.inference.label_map
    inf_ret,    \* inference main: exception, warning, functions called, status
    inf_pc,     \* inference main: "ready" before the call, "done" after it
    wr_dir_exists, \* training run: the results directory exists
    wr_hvd,     \* training run: per rank, hvd.init() has been called
    wr_writes,  \* training run: the writes done, as (rank, path)
    wr_exc,     \* training run: per rank, the exception that ended it
    wr_pc,      \* training run: per rank, the statement it is at
    bar_started, \* evaluate: per rank, the evaluate calls made
    bar_loops,  \* evaluate: per rank, the evaluation loops finished
    bar_gathered, \* evaluate: per rank, the gather calls done
    bar_entered, \* evaluate: per rank, the times it entered the barrier
    bar_passed, \* evaluate: per rank, the times it left the barrier
    bar_metrics, \* evaluate: the final-metric computations of the main process
    bar_pc,     \* evaluate: per rank, the statement it is at
    rs_num_epochs, \* run_experiment: config.num_epochs
    rs_resume,  \* run_experiment: the resume container, <<>> or <<epoch>>
    rs_runs,    \* run_experiment: what each invocation did
    rs_epoch,   \* run_experiment: train_from_epoch, then the epoch fit is at
    rs_pc,      \* run_experiment: "idle", "restored" (line 192) or "fit"
    ck_period,  \* EffCheckpoint: period
    ck_save_freq, \* EffCheckpoint: save_freq
    ck_graph_only, \* EffCheckpoint: graph_only
    ck_first,   \* EffCheckpoint: index of the first epoch of the fit loop
    ck_calls,   \* EffCheckpoint: number of on_epoch_end calls made
    ck_since,   \* EffCheckpoint: epochs_since_last_save
    ck_tmp,     \* EffCheckpoint: temporary directories and zip files that exist
    ck_log,     \* EffCheckpoint: per call, epoch index, whether it saved, artifact
    rp_path,    \* remove_prefix: dir_path, as the directory names of an absolute path
    rp_ret,     \* remove_prefix: the returned path and the loop steps taken
    rp_pc,      \* remove_prefix: "ready" before the call, "done" after it
    ema_decay,  \* evaluate: train_config.moving_average_decay, in tenths
    ema_w,      \* evaluate: the training model's weights and the optimizer's averages
    ema_eval,   \* evaluate: the inference model's weights, <<>> before the first copy
    ema_before, \* evaluate: the weights and averages when the call was entered
    ema_swaps,  \* evaluate: swap_weights calls made by the current call
    ema_calls,  \* evaluate: calls made
    ema_pc,     \* evaluate: "train" outside the call, else the statement reached
    st_inv,     \* inference main: invocations started
    st_path,    \* inference main: cfg.inference.model_path of the invocation
    st_label,   \* inference main: cfg.inference.label_map of the invocation
    st_trace,   \* inference main: status records and calls, each with its invocation
    st_pc,      \* inference main: "idle" between invocations, else the statement reached
    pl_checkpoint, \* run_experiment: cfg.train.checkpoint
    pl_pruned,  \* run_experiment: cfg.train.pruned_model_path is set
    pl_resume,  \* run_experiment: <name>.resume exists in the results directory
    pl_had_resume, \* run_experiment: <name>.resume existed when the invocation started
    pl_launches, \* run_experiment: invocations of the training command
    pl_did,     \* run_experiment: per rank, what the invocation has done
    pl_pc,      \* run_experiment: per rank, the statement reached
    it_ds,      \* interleaved iteration: the DataSource object
    it_iters,   \* interleaved iteration: handles taken by iter()
    it_before,  \* interleaved iteration: <<handle, element>> yielded before the latest iter()
    it_since,   \* interleaved iteration: <<handle, element>> yielded since the latest iter()
    it_stop     \* interleaved iteration: the handles that got StopIteration

cfg_vars == <<cfg, cfg_old, cfg_arg, cfg_allow, cfg_exc, cfg_pc>>

ds_vars == <<ds_args, ds, ds_exc, ds_out, ds_len, ds_iters, ds_first, ds_pc, ds_partial>>

det_vars == <<det_name, det_ret, det_pc>>

cm_vars == <<cm_data, cm_exc, cm_names, cm_pc>>

cmr_vars == <<cmr_file, cmr_out, cmr_pc>>

bg_vars == <<bg_list, bg_size, bg_ndx, bg_out, bg_exc, bg_pc>>

ld_vars == <<ld_file, ld_ret, ld_pc>>

gm_vars == <<gm_arch, gm_kwargs_ok, gm_ret, gm_pc>>

tp_vars == <<tp_pretrained, tp_model, tp_i, tp_log, tp_exc, tp_pc>>

ev_vars == <<ev_freq, ev_start, ev_first, ev_epoch, ev_evals, ev_exc>>

inf_vars == <<inf_path, inf_label_map, inf_ret, inf_pc>>

wr_vars == <<wr_dir_exists, wr_hvd, wr_writes, wr_exc, wr_pc>>

bar_vars == <<bar_started, bar_loops, bar_gathered, bar_entered, bar_passed, bar_metrics, bar_pc>>

rs_vars == <<rs_num_epochs, rs_resume, rs_runs, rs_epoch, rs_pc>>

ck_vars == <<ck_period, ck_save_freq, ck_graph_only, ck_first, ck_calls, ck_since, ck_tmp, ck_log>>

rp_vars == <<rp_path, rp_ret, rp_pc>>

ema_vars == <<ema_decay, ema_w, ema_eval, ema_before, ema_swaps, ema_calls, ema_pc>>

st_vars == <<st_inv, st_path, st_label, st_trace, st_pc>>

pl_vars == <<pl_checkpoint, pl_pruned, pl_resume, pl_had_resume, pl_launches, pl_did, pl_pc>>

it_vars == <<it_ds, it_iters, it_before, it_since, it_stop>>

vars == <<ds_vars, cfg_vars, det_vars, cm_vars, cmr_vars, bg_vars, ld_vars, gm_vars, tp_vars, ev_vars, inf_vars, wr_vars, bar_vars, rs_vars, ck_vars, rp_vars, ema_vars, st_vars, pl_vars, it_vars>>

\* what the operations of one component leave alone: the other components
ds_frame == <<cfg_vars, det_vars, cm_vars, cmr_vars, bg_vars, ld_vars, gm_vars, tp_vars, ev_vars, inf_vars, wr_vars, bar_vars, rs_vars, ck_vars, rp_vars, ema_vars, st_vars, pl_vars, it_vars>>
cfg_frame == <<ds_vars, det_vars, cm_vars, cmr_vars, bg_vars, ld_vars, gm_vars, tp_vars, ev_vars, inf_vars, wr_vars, bar_vars, rs_vars, ck_vars, rp_vars, ema_vars, st_vars, pl_vars, it_vars>>
det_frame == <<ds_vars, cfg_vars, cm_vars, cmr_vars, bg_vars, ld_vars, gm_vars, tp_vars, ev_vars, inf_vars, wr_vars, bar_vars, rs_vars, ck_vars, rp_vars, ema_vars, st_vars, pl_vars, it_vars>>
cm_frame == <<ds_vars, cfg_vars, det_vars, cmr_vars, bg_vars, ld_vars, gm_vars, tp_vars, ev_vars, inf_vars, wr_vars, bar_vars, rs_vars, ck_vars, rp_vars, ema_vars, st_vars, pl_vars, it_vars>>
cmr_frame == <<ds_vars, cfg_vars, det_vars, cm_vars, bg_vars, ld_vars, gm_vars, tp_vars, ev_vars, inf_vars, wr_vars, bar_vars, rs_vars, ck_vars, rp_vars, ema_vars, st_vars, pl_vars, it_vars>>
bg_frame == <<ds_vars, cfg_vars, det_vars, cm_vars, cmr_vars, ld_vars, gm_vars, tp_vars, ev_vars, inf_vars, wr_vars, bar_vars, rs_vars, ck_vars, rp_vars, ema_vars, st_vars, pl_vars, it_vars>>
ld_frame == <<ds_vars, cfg_vars, det_vars, cm_vars, cmr_vars, bg_vars, gm_vars, tp_vars, ev_vars, inf_vars, wr_vars, bar_vars, rs_vars, ck_vars, rp_vars, ema_vars, st_vars, pl_vars, it_vars>>
gm_frame == <<ds_vars, cfg_vars, det_vars, cm_vars, cmr_vars, bg_vars, ld_vars, tp_vars, ev_vars, inf_vars, wr_vars, bar_vars, rs_vars, ck_vars, rp_vars, ema_vars, st_vars, pl_vars, it_vars>>
tp_frame == <<ds_vars, cfg_vars, det_vars, cm_vars, cmr_vars, bg_vars, ld_vars, gm_vars, ev_vars, inf_vars, wr_vars, bar_vars, rs_vars, ck_vars, rp_vars, ema_vars, st_vars, pl_vars, it_vars>>
ev_frame == <<ds_vars, cfg_vars, det_vars, cm_vars, cmr_vars, bg_vars, ld_vars, gm_vars, tp_vars, inf_vars, wr_vars, bar_vars, rs_vars, ck_vars, rp_vars, ema_vars, st_vars, pl_vars, it_vars>>
inf_frame == <<ds_vars, cfg_vars, det_vars, cm_vars, cmr_vars, bg_vars, ld_vars, gm_vars, tp_vars, ev_vars, wr_vars, bar_vars, rs_vars, ck_vars, rp_vars, ema_vars, st_vars, pl_vars, it_vars>>
wr_frame == <<ds_vars, cfg_vars, det_vars, cm_vars, cmr_vars, bg_vars, ld_vars, gm_vars, tp_vars, ev_vars, inf_vars, bar_vars, rs_vars, ck_vars, rp_vars, ema_vars, st_vars, pl_vars, it_vars>>
bar_frame == <<ds_vars, cfg_vars, det_vars, cm_vars, cmr_vars, bg_vars, ld_vars, gm_vars, tp_vars, ev_vars, inf_vars, wr_vars, rs_vars, ck_vars, rp_vars, ema_vars, st_vars, pl_vars, it_vars>>
rs_frame == <<ds_vars, cfg_vars, det_vars, cm_vars, cmr_vars, bg_vars, ld_vars, gm_vars, tp_vars, ev_vars, inf_vars, wr_vars, bar_vars, ck_vars, rp_vars, ema_vars, st_vars, pl_vars, it_vars>>
ck_frame == <<ds_vars, cfg_vars, det_vars, cm_vars, cmr_vars, bg_vars, ld_vars, gm_vars, tp_vars, ev_vars, inf_vars, wr_vars, bar_vars, rs_vars, rp_vars, ema_vars, st_vars, pl_vars, it_vars>>
rp_frame == <<ds_vars, cfg_vars, det_vars, cm_vars, cmr_vars, bg_vars, ld_vars, gm_vars, tp_vars, ev_vars, inf_vars, wr_vars, bar_vars, rs_vars, ck_vars, ema_vars, st_vars, pl_vars, it_vars>>
ema_frame == <<ds_vars, cfg_vars, det_vars, cm_vars, cmr_vars, bg_vars, ld_vars, gm_vars, tp_vars, ev_vars, inf_vars, wr_vars, bar_vars, rs_vars, ck_vars, rp_vars, st_vars, pl_vars, it_vars>>
st_frame == <<ds_vars, cfg_vars, det_vars, cm_vars, cmr_vars, bg_vars, ld_vars, gm_vars, tp_vars, ev_vars, inf_vars, wr_vars, bar_vars, rs_vars, ck_vars, rp_vars, ema_vars, pl_vars, it_vars>>
pl_frame == <<ds_vars, cfg_vars, det_vars, cm_vars, cmr_vars, bg_vars, ld_vars, gm_vars, tp_vars, ev_vars, inf_vars, wr_vars, bar_vars, rs_vars, ck_vars, rp_vars, ema_vars, st_vars, it_vars>>
it_frame == <<ds_vars, cfg_vars, det_vars, cm_vars, cmr_vars, bg_vars, ld_vars, gm_vars, tp_vars, ev_vars, inf_vars, wr_vars, bar_vars, rs_vars, ck_vars, rp_vars, ema_vars, st_vars, pl_vars>>

\* ------------------------------------------------------------------------
\* Generic helpers
\* ------------------------------------------------------------------------
SeqsUpTo(S, n) == UNION {[1..k -> S] : k \in 0..n}

Range(s) == {s[i] : i \in DOMAIN s}

\* ------------------------------------------------------------------------
\* DataSource (cv/efficientdet/dataloader/datasource.py)
\* ------------------------------------------------------------------------
MaxShards == 3
MaxIters == 3

PatternNames == {"train-*.tfrecord", "val-*.tfrecord"}
DirNames == {"/data/a", "/data/b"}

NoDataSource ==
    [made |-> FALSE, tfrecord_patterns |-> <<>>, image_dirs |-> <<>>,
     has_n |-> FALSE, n |-> 0]

\* __init__ with the length assertion on image_dirs left out.
DataSource_init_nocheck(tfrecord_patterns, image_dirs) ==
    IF ~(Len(tfrecord_patterns) > 0)
    THEN [exc |-> "AssertionError", self |-> NoDataSource]
    ELSE [exc |-> "none",
          self |-> [made |-> TRUE,
                    tfrecord_patterns |-> tfrecord_patterns,
                    image_dirs |-> IF Len(image_dirs) > 0 THEN image_dirs
                                   ELSE [i \in 1..Len(tfrecord_patterns) |-> "/"],
                    has_n |-> FALSE, n |-> 0]]

\* __init__ that keeps an empty image_dirs list instead of the sentinels.
DataSource_init_nosentinel(tfrecord_patterns, image_dirs) ==
    IF ~(Len(tfrecord_patterns) > 0)
    THEN [exc |-> "AssertionError", self |-> NoDataSource]
    ELSE IF Len(image_dirs) > 0 /\ Len(image_dirs) # Len(tfrecord_patterns)
    THEN [exc |-> "AssertionError", self |-> NoDataSource]
    ELSE [exc |-> "none",
          self |-> [made |-> TRUE,
                    tfrecord_patterns |-> tfrecord_patterns,
                    image_dirs |-> IF Len(image_dirs) > 0 THEN image_dirs
                                   ELSE [i \in 1..Len(tfrecord_patterns) |-> "/data/a"],
                    has_n |-> FALSE, n |-> 0]]

\* DataSource.__init__: the result is the exception raised and the object.
DataSource_init(tfrecord_patterns, image_dirs) ==
    IF ~(Len(tfrecord_patterns) > 0)
    THEN [exc |-> "AssertionError", self |-> NoDataSource]
    ELSE IF Len(image_dirs) > 0 /\ Len(image_dirs) # Len(tfrecord_patterns)
    THEN [exc |-> "AssertionError", self |-> NoDataSource]
    ELSE [exc |-> "none",
          self |-> [made |-> TRUE,
                    tfrecord_patterns |-> tfrecord_patterns,
                    image_dirs |-> IF Len(image_dirs) > 0 THEN image_dirs
                                   ELSE [i \in 1..Len(tfrecord_patterns) |-> "/"],
                    has_n |-> FALSE, n |-> 0]]

\* DataSource.__len__
DataSource_len(self) == Len(self.tfrecord_patterns)

\* __iter__ that leaves the cursor where it is (sets it only when missing).
DataSource_iter_noreset(self) ==
    IF self.has_n THEN self ELSE [self EXCEPT !.has_n = TRUE, !.n = 0]

\* DataSource.__iter__: self.n = 0; return self
DataSource_iter(self) == [self EXCEPT !.has_n = TRUE, !.n = 0]

\* DataSource.__next__: the exception raised, the pair returned, the object.
\* The cursor n is 0-based as in the source; sequences here are 1-based.
DataSource_next(self) ==
    IF ~self.has_n
    THEN [exc |-> "AttributeError", ret |-> <<>>, self |-> self]
    ELSE IF self.n < Len(self.tfrecord_patterns)
    THEN IF self.n + 1 \in DOMAIN self.image_dirs
         THEN [exc |-> "none",
               ret |-> <<self.tfrecord_patterns[self.n + 1], self.image_dirs[self.n + 1]>>,
               self |-> [self EXCEPT !.n = self.n + 1]]
         ELSE [exc |-> "IndexError", ret |-> <<>>, self |-> self]
    ELSE [exc |-> "StopIteration", ret |-> <<>>, self |-> self]

DSInit ==
    /\ ds_args \in [tfrecord_patterns : SeqsUpTo(PatternNames, MaxShards),
                    image_dirs : SeqsUpTo(DirNames, MaxShards)]
    /\ ds = NoDataSource
    /\ ds_exc = "none"
    /\ ds_out = <<>>
    /\ ds_len = <<>>
    /\ ds_iters = 0
    /\ ds_first = <<>>
    /\ ds_pc = "start"
    /\ ds_partial = FALSE

\* DataSource(tfrecord_patterns, image_dirs)
DSConstruct ==
    /\ ds_pc = "start"
    /\ LET r == DataSource_init(ds_args.tfrecord_patterns, ds_args.image_dirs)
       IN /\ ds' = r.self
          /\ ds_exc' = r.exc
    /\ ds_pc' = "called"
    /\ UNCHANGED <<ds_args, ds_out, ds_len, ds_iters, ds_first, ds_partial>>
    /\ UNCHANGED ds_frame

\* len(data_source)
DSLen ==
    /\ ds.made
    /\ ds_len' = <<DataSource_len(ds)>>
    /\ UNCHANGED <<ds_args, ds, ds_exc, ds_out, ds_iters, ds_first, ds_pc, ds_partial>>
    /\ UNCHANGED ds_frame

\* iter(data_source): a new for-loop starts, whatever the previous one did
DSIter ==
    /\ ds.made
    /\ ds_iters < MaxIters
    /\ ds' = DataSource_iter(ds)
    /\ ds_exc' = "none"
    /\ ds_out' = <<>>
    /\ ds_iters' = ds_iters + 1
    /\ ds_partial' = (ds_partial \/ (ds.has_n /\ ds_out # <<>> /\ ds_exc = "none"))
    /\ UNCHANGED <<ds_args, ds_len, ds_first, ds_pc>>
    /\ UNCHANGED ds_frame

\* next(data_source)
DSNext ==
    /\ ds.made
    /\ LET r == DataSource_next(ds)
       IN /\ ds' = r.self
          /\ ds_exc' = r.exc
          /\ ds_out' = IF r.exc = "none" THEN Append(ds_out, r.ret) ELSE ds_out
          /\ ds_first' = IF r.exc = "StopIteration" /\ ds_first = <<>>
                         THEN <<ds_out>> ELSE ds_first
    /\ UNCHANGED <<ds_args, ds_len, ds_iters, ds_pc, ds_partial>>
    /\ UNCHANGED ds_frame

DSNextRel == DSConstruct \/ DSLen \/ DSIter \/ DSNext

\* ------------------------------------------------------------------------
\* Properties of DataSource
\* ------------------------------------------------------------------------
DSValidArgs ==
    /\ Len(ds_args.tfrecord_patterns) > 0
    /\ Len(ds_args.image_dirs) \in {0, Len(ds_args.tfrecord_patterns)}

\* The pairs (patterns[i], dirs[i]) of the constructor's arguments, in input
\* order, with the sentinel '/' for every directory when none was given.
DSArgPairs ==
    [i \in 1..Len(ds_args.tfrecord_patterns) |->
        <<ds_args.tfrecord_patterns[i],
          IF Len(ds_args.image_dirs) = 0 THEN "/" ELSE ds_args.image_dirs[i]>>]

\* C1: for n > 0 patterns and an image-directory list that is empty or of
\* length n, construction succeeds, len() is n, and an iteration yields the
\* pairs (patterns[i], dirs[i]) in input order, exactly n of them when it runs
\* to the end, every directory being '/' when no directory was given.
C1_ValidConstructionYieldsPairs ==
    DSValidArgs =>
        /\ ds_exc \notin {"AssertionError", "IndexError"}
        /\ (ds_pc = "called" => ds.made)
        /\ (ds_len # <<>> => ds_len[1] = Len(ds_args.tfrecord_patterns))
        /\ (ds.has_n /\ ds_iters = 1 =>
                /\ Len(ds_out) <= Len(DSArgPairs)
                /\ ds_out = SubSeq(DSArgPairs, 1, Len(ds_out)))
        /\ (ds_exc = "StopIteration" /\ ds_iters = 1 => ds_out = DSArgPairs)

C1_Witness ==
    /\ DSValidArgs
    /\ Len(ds_args.tfrecord_patterns) >= 2
    /\ ds_args.image_dirs = <<>>
    /\ ds_len # <<>>
    /\ ds_iters = 1
    /\ ds_exc = "StopIteration"
    /\ Len(ds_out) = Len(ds_args.tfrecord_patterns)
    /\ \A i \in DOMAIN ds_out : ds_out[i][2] = "/"

\* C2: with zero patterns, or with a non-empty image-directory list whose
\* length differs from the pattern count, the constructor raises the
\* assertion error and no DataSource object exists.
C2_InvalidConstructionFails ==
    (~DSValidArgs /\ ds_pc = "called") =>
        /\ ds_exc = "AssertionError"
        /\ ~ds.made
        /\ ds_out = <<>> /\ ds_len = <<>> /\ ds_iters = 0

C2_Witness ==
    /\ Len(ds_args.tfrecord_patterns) > 0
    /\ Len(ds_args.image_dirs) > 0
    /\ Len(ds_args.image_dirs) # Len(ds_args.tfrecord_patterns)
    /\ ds_pc = "called"
    /\ ds_exc = "AssertionError"

\* C3: obtaining an iterator resets the cursor, so every iteration, after any
\* number of complete or abandoned ones, yields from the first element on and,
\* run to the end, yields the same sequence as the first complete iteration.
C3_ReiterationRestarts ==
    /\ (ds.made /\ ds.has_n) =>
           /\ ds.n = Len(ds_out)
           /\ \A i \in DOMAIN ds_out :
                 ds_out[i] = <<ds.tfrecord_patterns[i], ds.image_dirs[i]>>
    /\ (ds_exc = "StopIteration" /\ ds_first # <<>>) => ds_out = ds_first[1]
    /\ (ds_exc = "StopIteration") => Len(ds_out) = Len(ds.tfrecord_patterns)

C3_Witness ==
    /\ ds_partial
    /\ ds_iters = MaxIters
    /\ ds_first # <<>>
    /\ ds_exc = "StopIteration"
    /\ Len(ds_out) >= 2
    /\ ds_out = ds_first[1]

\* ------------------------------------------------------------------------
\* Python values and strings
\*   <<"int", n>>  <<"bool", b>>  <<"str", s>>  <<"list", <<v1, ...>>>>
\*   <<"dict", items>>  <<"Config", items>>  <<"none", <<>>>>
\* items is the insertion-ordered sequence of <<key, value>> pairs of a dict
\* (or of a Config's __dict__); a string is the sequence of its lexemes.
\* ------------------------------------------------------------------------
PyInt(n) == <<"int", n>>
PyBool(b) == <<"bool", b>>
PyStr(s) == <<"str", s>>
PyList(l) == <<"list", l>>
PyDict(items) == <<"dict", items>>
PyConfig(items) == <<"Config", items>>
PyNone == <<"none", <<>>>>
\* a float, by its repr
PyFloat(repr) == <<"float", repr>>
PyTuple(l) == <<"tuple", l>>
\* a one-lexeme key
K(name) == <<name>>

\* Python truth value of v being false ("not v")
PyNot(v) ==
    \/ v[1] = "none"
    \/ v[1] \in {"dict", "list", "str"} /\ v[2] = <<>>
    \/ v[1] = "int" /\ v[2] = 0
    \/ v[1] = "bool" /\ v[2] = FALSE

HasKey(items, k) == \E i \in DOMAIN items : items[i][1] = k
KeyIndex(items, k) == CHOOSE i \in DOMAIN items : items[i][1] = k
GetItem(items, k) == items[KeyIndex(items, k)][2]
\* d[k] = v: an existing key keeps its place, a new key goes last
SetItem(items, k, v) ==
    IF HasKey(items, k) THEN [items EXCEPT ![KeyIndex(items, k)] = <<k, v>>]
    ELSE Append(items, <<k, v>>)

\* s1 + sep + s2
Join2(s1, sep, s2) == s1 \o <<sep>> \o s2

\* str.split(sep) for a one-lexeme separator
RECURSIVE StrSplit(_, _)
StrSplit(s, sep) ==
    IF \E i \in DOMAIN s : s[i] = sep
    THEN LET i == CHOOSE j \in DOMAIN s :
                    s[j] = sep /\ \A h \in 1..(j - 1) : s[h] # sep
         IN <<SubSeq(s, 1, i - 1)>> \o StrSplit(SubSeq(s, i + 1, Len(s)), sep)
    ELSE <<s>>

\* str.strip(): whitespace removed at both ends
StrStrip(s) ==
    IF \A i \in DOMAIN s : s[i] = " " THEN <<>>
    ELSE LET lo == CHOOSE j \in DOMAIN s : s[j] # " " /\ \A h \in 1..(j - 1) : s[h] = " "
             hi == CHOOSE j \in DOMAIN s : s[j] # " " /\ \A h \in (j + 1)..Len(s) : s[h] = " "
         IN SubSeq(s, lo, hi)

\* str.endswith('.yaml')
EndsWithYaml(s) == Len(s) >= 2 /\ s[Len(s) - 1] = "." /\ s[Len(s)] = "yaml"

\* ------------------------------------------------------------------------
\* ast.literal_eval on the value strings of this model (no '*': the caller
\* splits on it first).  Digit strings are decimal integers unless they have
\* a leading zero; a bare name is a malformed node; '{[]:1}' is a dict
\* display with an unhashable key.
\* ------------------------------------------------------------------------
Digits == {"0", "1", "2", "3", "5"}
IdentLexemes == {"sum", "true", "false", "yaml"}

DigitValue(c) ==
    CASE c = "0" -> 0 [] c = "1" -> 1 [] c = "2" -> 2 [] c = "3" -> 3 [] c = "5" -> 5

RECURSIVE DecimalValue(_)
DecimalValue(s) ==
    IF s = <<>> THEN 0
    ELSE 10 * DecimalValue(SubSeq(s, 1, Len(s) - 1)) + DigitValue(s[Len(s)])

literal_eval(s) ==
    IF s # <<>> /\ \A i \in DOMAIN s : s[i] \in Digits
    THEN IF Len(s) > 1 /\ s[1] = "0" /\ \E i \in DOMAIN s : s[i] # "0"
         THEN [exc |-> "SyntaxError", val |-> PyNone]
         ELSE [exc |-> "none", val |-> PyInt(DecimalValue(s))]
    ELSE IF s = <<"{[]:1}">>
    THEN [exc |-> "TypeError", val |-> PyNone]
    ELSE IF s # <<>> /\ s[1] \in IdentLexemes
            /\ \A i \in DOMAIN s : s[i] \in IdentLexemes \cup Digits
    THEN [exc |-> "ValueError", val |-> PyNone]
    ELSE [exc |-> "SyntaxError", val |-> PyNone]

\* eval_str_fn: the exception that escapes it, or the value it returns
eval_str_fn(val) ==
    IF val \in {<<"true">>, <<"false">>}
    THEN [exc |-> "none", val |-> PyBool(val = <<"true">>)]
    ELSE LET r == literal_eval(val)
         IN IF r.exc = "none" THEN r
            ELSE IF r.exc \in {"ValueError", "SyntaxError"}
            THEN [exc |-> "none", val |-> PyStr(val)]
            ELSE r

\* [eval_str_fn(vv) for vv in v.split('*')]: the first exception, or the list
eval_list(parts) ==
    IF \E i \in DOMAIN parts : eval_str_fn(parts[i]).exc # "none"
    THEN [exc |-> eval_str_fn(parts[CHOOSE i \in DOMAIN parts :
                        /\ eval_str_fn(parts[i]).exc # "none"
                        /\ \A h \in 1..(i - 1) : eval_str_fn(parts[h]).exc = "none"]).exc,
          val |-> PyNone]
    ELSE [exc |-> "none", val |-> PyList([i \in DOMAIN parts |-> eval_str_fn(parts[i]).val])]

\* Config.parse_from_str.add_kv_recursive: 'x.y.z=tt' to {x: {y: {z: tt}}}
RECURSIVE add_kv_recursive(_, _)
add_kv_recursive(k, v) ==
    IF "." \notin Range(k)
    THEN LET r == IF "*" \in Range(v) THEN eval_list(StrSplit(v, "*"))
                  ELSE eval_str_fn(v)
         IN [exc |-> r.exc, val |-> PyDict(<< <<k, r.val>> >>)]
    ELSE LET pos == CHOOSE j \in DOMAIN k : k[j] = "." /\ \A h \in 1..(j - 1) : k[h] # "."
             r == add_kv_recursive(SubSeq(k, pos + 1, Len(k)), v)
         IN [exc |-> r.exc, val |-> PyDict(<< <<SubSeq(k, 1, pos - 1), r.val>> >>)]

\* Config.parse_from_str.merge_dict_recursive, from the i-th key of src on;
\* target and src are item sequences, the result is the new target
RECURSIVE merge_dict_recursive(_, _, _)
merge_dict_recursive(target, src, i) ==
    IF i > Len(src) THEN target
    ELSE LET k == src[i][1]
             v == src[i][2]
         IN IF HasKey(target, k) /\ GetItem(target, k)[1] = "dict" /\ v[1] = "dict"
            THEN merge_dict_recursive(
                     SetItem(target, k,
                             PyDict(merge_dict_recursive(GetItem(target, k)[2], v[2], 1))),
                     src, i + 1)
            ELSE merge_dict_recursive(SetItem(target, k, v), src, i + 1)

\* the loop of Config.parse_from_str over config_str.split(','), from the
\* i-th pair on, config_dict being the dict built so far
RECURSIVE parse_pairs(_, _, _)
parse_pairs(kv_pairs, i, config_dict) ==
    IF i > Len(kv_pairs) THEN [exc |-> "none", val |-> PyDict(config_dict)]
    ELSE IF kv_pairs[i] = <<>> THEN parse_pairs(kv_pairs, i + 1, config_dict)
    ELSE LET parts == StrSplit(kv_pairs[i], "=")
         IN IF Len(parts) # 2 THEN [exc |-> "ValueError", val |-> PyNone]
            ELSE LET r == add_kv_recursive(StrStrip(parts[1]), parts[2])
                 IN IF r.exc # "none" THEN [exc |-> r.exc, val |-> PyNone]
                    ELSE parse_pairs(kv_pairs, i + 1,
                                     merge_dict_recursive(config_dict, r.val[2], 1))

\* Config.parse_from_str
parse_from_str(config_str) ==
    IF config_str = <<>> THEN [exc |-> "none", val |-> PyDict(<<>>)]
    ELSE parse_pairs(StrSplit(config_str, ","), 1, <<>>)

\* ------------------------------------------------------------------------
\* Config (nvidia_tao_tf2/cv/efficientdet/utils/hparams_config.py)
\* A Config is the item sequence of its __dict__.  The methods that can raise
\* return the exception and the object as the call left it: a call that
\* raises part-way keeps the assignments already made.
\* ------------------------------------------------------------------------
RECURSIVE Config_update(_, _, _)
RECURSIVE Config_update_items(_, _, _, _)
RECURSIVE Config_as_dict(_)

\* Config(config_dict): update() on an empty object
Config_new(config_dict) == Config_update(<<>>, config_dict, TRUE)

\* Config.__setattr__: a dict becomes a Config, anything else is deep-copied;
\* copy.deepcopy of a Config looks up __deepcopy__ through __getattr__, which
\* raises KeyError
Config_setattr(self, k, v) ==
    IF v[1] = "dict"
    THEN LET r == Config_new(v)
         IN [exc |-> r.exc,
             self |-> IF r.exc = "none" THEN SetItem(self, k, PyConfig(r.self)) ELSE self]
    ELSE IF v[1] = "Config" THEN [exc |-> "KeyError", self |-> self]
    ELSE [exc |-> "none", self |-> SetItem(self, k, v)]

\* Config.as_dict
Config_as_dict(self) ==
    [i \in DOMAIN self |->
        <<self[i][1],
          IF self[i][2][1] = "Config" THEN PyDict(Config_as_dict(self[i][2][2]))
          ELSE self[i][2]>>]

\* the loop body of _update with the recursion into sub-Configs left out:
\* every existing key is assigned
Config_update_step_norecurse(self, k, v, allow_new_keys) ==
    IF ~HasKey(self, k)
    THEN IF allow_new_keys THEN Config_setattr(self, k, v)
         ELSE [exc |-> "KeyError", self |-> self]
    ELSE Config_setattr(self, k, v)

\* the loop body of Config._update for one (k, v) of config_dict
Config_update_step(self, k, v, allow_new_keys) ==
    IF ~HasKey(self, k)
    THEN IF allow_new_keys THEN Config_setattr(self, k, v)
         ELSE [exc |-> "KeyError", self |-> self]
    ELSE LET cur == GetItem(self, k)
         IN IF cur[1] = "Config" /\ v[1] = "dict"
            THEN LET r == Config_update(cur[2], v, allow_new_keys)
                 IN [exc |-> r.exc, self |-> SetItem(self, k, PyConfig(r.self))]
            ELSE IF cur[1] = "Config" /\ v[1] = "Config"
            THEN LET r == Config_update(cur[2], PyDict(Config_as_dict(v[2])), allow_new_keys)
                 IN [exc |-> r.exc, self |-> SetItem(self, k, PyConfig(r.self))]
            ELSE Config_setattr(self, k, v)

\* the loop of Config._update over six.iteritems(config_dict), from item i on
Config_update_items(self, items, i, allow_new_keys) ==
    IF i > Len(items) THEN [exc |-> "none", self |-> self]
    ELSE LET r == Config_update_step(self, items[i][1], items[i][2], allow_new_keys)
         IN IF r.exc # "none" THEN r
            ELSE Config_update_items(r.self, items, i + 1, allow_new_keys)

\* Config._update
Config_update(self, config_dict, allow_new_keys) ==
    IF PyNot(config_dict) THEN [exc |-> "none", self |-> self]
    ELSE Config_update_items(self, config_dict[2], 1, allow_new_keys)

\* Config.override without the early return on an empty string
Config_override_noempty(self, config_dict_or_str, allow_new_keys, yaml_file) ==
    IF config_dict_or_str[1] = "str"
    THEN IF "=" \in Range(config_dict_or_str[2])
         THEN LET p == parse_from_str(config_dict_or_str[2])
              IN IF p.exc # "none" THEN [exc |-> p.exc, self |-> self]
                 ELSE Config_update(self, p.val, allow_new_keys)
         ELSE IF EndsWithYaml(config_dict_or_str[2])
         THEN IF yaml_file.exc # "none" THEN [exc |-> yaml_file.exc, self |-> self]
              ELSE Config_update(self, yaml_file.val, allow_new_keys)
         ELSE [exc |-> "ValueError", self |-> self]
    ELSE IF config_dict_or_str[1] = "dict"
    THEN Config_update(self, config_dict_or_str, allow_new_keys)
    ELSE [exc |-> "ValueError", self |-> self]

\* Config.override; yaml_file is what parse_from_yaml gets from the file system
\* for the path: an exception or the loaded document
Config_override(self, config_dict_or_str, allow_new_keys, yaml_file) ==
    IF config_dict_or_str[1] = "str"
    THEN IF config_dict_or_str[2] = <<>>
         THEN [exc |-> "none", self |-> self]
         ELSE IF "=" \in Range(config_dict_or_str[2])
         THEN LET p == parse_from_str(config_dict_or_str[2])
              IN IF p.exc # "none" THEN [exc |-> p.exc, self |-> self]
                 ELSE Config_update(self, p.val, allow_new_keys)
         ELSE IF EndsWithYaml(config_dict_or_str[2])
         THEN IF yaml_file.exc # "none" THEN [exc |-> yaml_file.exc, self |-> self]
              ELSE Config_update(self, yaml_file.val, allow_new_keys)
         ELSE [exc |-> "ValueError", self |-> self]
    ELSE IF config_dict_or_str[1] = "dict"
    THEN Config_update(self, config_dict_or_str, allow_new_keys)
    ELSE [exc |-> "ValueError", self |-> self]

\* ------------------------------------------------------------------------
\* Config: the objects and the override arguments the model draws from
\* ------------------------------------------------------------------------
MaxDepth == 3
MaxValLen == 4

Ka == <<"a">>
Kb == <<"b">>
Kc == <<"c">>
CfgKeys == {Ka, Kb, Kc}

InitDicts ==
    { PyDict(<< <<Ka, PyDict(<< <<Kb, PyInt(1)>>, <<Kc, PyInt(2)>> >>)>> >>),
      PyDict(<< <<Ka, PyDict(<< <<Kb, PyInt(1)>>, <<Kc, PyInt(2)>> >>)>>,
                <<Kb, PyInt(0)>> >>),
      PyDict(<< <<Ka, PyDict(<< <<Kb, PyDict(<< <<Kc, PyInt(1)>> >>)>>,
                                <<Kc, PyInt(2)>> >>)>>,
                <<Kc, PyList(<<PyInt(1), PyInt(2)>>)>> >>) }

\* key paths k1, ..., kn with n <= d
KeyPaths(d) == UNION {[1..n -> CfgKeys] : n \in 1..d}

\* 'k1.k2...kn'
RECURSIVE PathStr(_)
PathStr(path) ==
    IF Len(path) = 1 THEN path[1]
    ELSE Join2(path[1], ".", PathStr(Tail(path)))

\* 'k1.k2...kn=v'
Assign(path, v) == Join2(PathStr(path), "=", v)

OvValues == {<<"5">>, <<"1", "*", "2", "*", "3">>, <<"true">>, <<"sum">>, <<"{[]:1}">>}

SingleAssigns == {Assign(p, v) : p \in KeyPaths(MaxDepth), v \in OvValues}

ShortAssigns == {Assign(p, <<"5">>) : p \in UNION {[1..n -> CfgKeys] : n \in 1..2}}

DoubleAssigns == {Join2(s1, ",", s2) : s1 \in ShortAssigns, s2 \in ShortAssigns}

OtherStrings ==
    { <<>>,
      <<"a">>,
      <<"a", ".", "b">>,
      <<"sum">>,
      <<"5">>,
      <<" ">>,
      <<",">>,
      <<"a", ".", "b", ",", "a", ".", "c">>,
      <<"a", ".", "yaml">>,
      <<".", "yaml">>,
      <<"yaml">>,
      <<"a", ".", "yaml", "2">>,
      <<"a", ".", "yaml", " ">>,
      <<"=">>,
      <<"=", "5">>,
      <<"a", ".", "b", "=">>,
      <<"a", ".", "b", "=", "0", "1">>,
      <<"a", ".", "b", "=", "1", "=", "2">>,
      <<"a", ".", "b", "=", "5", ",">>,
      <<",", "a", ".", "b", "=", "5">>,
      <<"a", ".", "b", "=", "5", ",", "a", ".", "c">>,
      <<" ", "a", ".", "b", " ", "=", "5">>,
      <<"a", ".", " ", "b", "=", "5">>,
      <<"a", ".", ".", "b", "=", "5">>,
      <<"a", ".", "b", "=", "5", ",", "a", ".", "b", ".", "c", "=", "1">>,
      <<"a", ".", "b", "=", "1", "*", "*", "2">>,
      <<"a", ".", "b", "=", "5", ",", "a", ".", "c", "=", "{[]:1}">>,
      <<"a", ".", "yaml", "=", "5">> }

DictArgs ==
    { PyDict(<<>>),
      PyDict(<< <<Ka, PyInt(5)>> >>),
      PyDict(<< <<Ka, PyDict(<<>>)>> >>),
      PyDict(<< <<Ka, PyDict(<< <<Kb, PyInt(5)>> >>)>> >>),
      PyDict(<< <<Ka, PyDict(<< <<Kb, PyInt(5)>>, <<Kc, PyNone>> >>)>> >>),
      PyDict(<< <<Ka, PyDict(<< <<Kb, PyInt(5)>>, <<Ka, PyInt(1)>> >>)>> >>),
      PyDict(<< <<Ka, PyDict(<< <<Ka, PyInt(1)>>, <<Kb, PyInt(5)>> >>)>> >>),
      PyDict(<< <<Ka, PyDict(<< <<Kb, PyDict(<< <<Ka, PyInt(1)>> >>)>> >>)>> >>),
      PyDict(<< <<Ka, PyDict(<< <<Kb, PyList(<<PyInt(1), PyStr(<<"sum">>)>>)>> >>)>> >>),
      PyDict(<< <<Kb, PyInt(5)>>, <<Ka, PyDict(<< <<Kc, PyBool(TRUE)>> >>)>> >>),
      PyDict(<< <<Kc, PyInt(5)>> >>),
      PyDict(<< <<Ka, PyConfig(<< <<Kb, PyInt(7)>> >>)>> >>),
      PyDict(<< <<Ka, PyDict(<< <<Kc, PyConfig(<< <<Kb, PyInt(7)>> >>)>> >>)>> >>) }

OtherArgs == {PyInt(5), PyNone, PyList(<<PyInt(1)>>), PyBool(TRUE), PyConfig(<<>>)}

OverrideArgs ==
    {PyStr(s) : s \in SingleAssigns \cup DoubleAssigns \cup OtherStrings}
        \cup DictArgs \cup OtherArgs

\* what parse_from_yaml finds at the path: no file, an empty document, a mapping
YamlFiles ==
    { [exc |-> "NotFoundError", val |-> PyNone],
      [exc |-> "none", val |-> PyNone],
      [exc |-> "none", val |-> PyDict(<< <<Ka, PyDict(<< <<Kb, PyInt(5)>> >>)>> >>)],
      [exc |-> "none", val |-> PyDict(<< <<Ka, PyDict(<< <<Ka, PyInt(5)>> >>)>> >>)] }

ValLexemes == {"0", "1", "2", "*", "true", "false", "sum", "{[]:1}"}

ValueStrs == SeqsUpTo(ValLexemes, MaxValLen) \cup {<<"1", "*", "2", "*", "3">>}

CfgInit ==
    /\ cfg \in {Config_new(d).self : d \in InitDicts}
    /\ cfg_old = <<>>
    /\ cfg_arg = PyNone
    /\ cfg_allow = FALSE
    /\ cfg_exc = "none"
    /\ cfg_pc = "ready"

\* the state after config.override(arg, allow_new_keys)
CfgCall(arg, allow_new_keys, yaml_file) ==
    /\ \E r \in {Config_override(cfg, arg, allow_new_keys, yaml_file)} :
          /\ cfg' = r.self
          /\ cfg_exc' = r.exc
    /\ cfg_old' = cfg
    /\ cfg_arg' = arg
    /\ cfg_allow' = allow_new_keys
    /\ cfg_pc' = "done"

\* config.override(arg) or config.override(arg, allow_new_keys)
CfgOverride ==
    /\ cfg_pc = "ready"
    /\ \E arg \in OverrideArgs, allow_new_keys \in BOOLEAN :
         \E yaml_file \in IF arg[1] = "str" /\ EndsWithYaml(arg[2]) THEN YamlFiles
                          ELSE {[exc |-> "none", val |-> PyNone]} :
            CfgCall(arg, allow_new_keys, yaml_file)
    /\ UNCHANGED cfg_frame

\* config.override('a.b=<value>')
CfgOverrideValue ==
    /\ cfg_pc = "ready"
    /\ \E v \in ValueStrs :
          CfgCall(PyStr(Assign(<<Ka, Kb>>, v)), FALSE, [exc |-> "none", val |-> PyNone])
    /\ UNCHANGED cfg_frame

CfgIdle ==
    /\ cfg = <<>>
    /\ cfg_old = <<>>
    /\ cfg_arg = PyNone
    /\ cfg_allow = FALSE
    /\ cfg_exc = "none"
    /\ cfg_pc = "ready"

DSIdle ==
    /\ ds_args = [tfrecord_patterns |-> <<>>, image_dirs |-> <<>>]
    /\ ds = NoDataSource
    /\ ds_exc = "none"
    /\ ds_out = <<>>
    /\ ds_len = <<>>
    /\ ds_iters = 0
    /\ ds_first = <<>>
    /\ ds_pc = "start"
    /\ ds_partial = FALSE

\* ------------------------------------------------------------------------
\* Detection hyperparameters (hparams_config.py): the defaults, the presets,
\* get_efficientdet_config and get_detection_config.  A model name is the
\* sequence of its lexemes ('efficientdet-d7x' is "efficientdet", "-d7", "x");
\* no lexeme is a prefix of another, so a name starts with 'efficientdet' or
\* 'resdet' exactly when that is its first lexeme.
\* ------------------------------------------------------------------------
MaxNameLen == 3

NameLexemes ==
    {"efficientdet", "resdet", "-d0", "-d1", "-d2", "-d3", "-d4", "-d5", "-d6", "-d7",
     "x", "18", "34", "foo"}

\* the attributes default_detection_configs assigns, in order
DefaultDetectionItems ==
    <<
       <<K("name"), PyStr(<<"efficientdet", "-d0">>)>>,
       <<K("model_name"), PyStr(<<"efficientdet", "-d0">>)>>,
       <<K("act_type"), PyStr(<<"swish">>)>>,
       <<K("image_size"), PyInt(640)>>,
       <<K("target_size"), PyNone>>,
       <<K("input_rand_hflip"), PyBool(TRUE)>>,
       <<K("jitter_min"), PyFloat("0.1")>>,
       <<K("jitter_max"), PyFloat("2.0")>>,
       <<K("auto_augment"), PyBool(FALSE)>>,
       <<K("auto_color"), PyBool(FALSE)>>,
       <<K("auto_translate_xy"), PyBool(FALSE)>>,
       <<K("grid_mask"), PyBool(FALSE)>>,
       <<K("use_augmix"), PyBool(FALSE)>>,
       <<K("augmix_params"), PyList(<<PyInt(3), PyInt(-1), PyInt(1)>>)>>,
       <<K("sample_image"), PyNone>>,
       <<K("shuffle_buffer"), PyInt(10000)>>,
       <<K("num_classes"), PyInt(91)>>,
       <<K("seg_num_classes"), PyInt(3)>>,
       <<K("heads"), PyList(<<PyStr(<<"object_detection">>)>>)>>,
       <<K("skip_crowd_during_training"), PyBool(TRUE)>>,
       <<K("label_map"), PyNone>>,
       <<K("max_instances_per_image"), PyInt(100)>>,
       <<K("regenerate_source_id"), PyBool(FALSE)>>,
       <<K("min_level"), PyInt(3)>>,
       <<K("max_level"), PyInt(7)>>,
       <<K("num_scales"), PyInt(3)>>,
         <<K("aspect_ratios"), PyList(<<PyTuple(<<PyFloat("1.0"), PyFloat("1.0")>>), PyTuple(<<PyFloat("1.4"), PyFloat("0.7")>>), PyTuple(<<PyFloat("0.7"), PyFloat("1.4")>>)>>)>>,
       <<K("anchor_scale"), PyFloat("4.0")>>,
       <<K("is_training_bn"), PyBool(TRUE)>>,
       <<K("momentum"), PyFloat("0.9")>>,
       <<K("optimizer"), PyStr(<<"sgd">>)>>,
       <<K("learning_rate"), PyFloat("0.08")>>,
       <<K("lr_warmup_init"), PyFloat("0.008")>>,
       <<K("lr_warmup_epoch"), PyFloat("1.0")>>,
       <<K("clip_gradients_norm"), PyFloat("10.0")>>,
       <<K("num_epochs"), PyInt(300)>>,
       <<K("data_format"), PyStr(<<"channels_last">>)>>,
       <<K("label_smoothing"), PyFloat("0.0")>>,
       <<K("alpha"), PyFloat("0.25")>>,
       <<K("gamma"), PyFloat("1.5")>>,
       <<K("delta"), PyFloat("0.1")>>,
       <<K("box_loss_weight"), PyFloat("50.0")>>,
       <<K("iou_loss_type"), PyNone>>,
       <<K("iou_loss_weight"), PyFloat("1.0")>>,
       <<K("l2_weight_decay"), PyFloat("4e-05")>>,
       <<K("l1_weight_decay"), PyFloat("0.0")>>,
       <<K("mixed_precision"), PyBool(FALSE)>>,
       <<K("mixed_precision_on_inputs"), PyBool(FALSE)>>,
       <<K("loss_scale"), PyInt(32768)>>,
       <<K("box_class_repeats"), PyInt(3)>>,
       <<K("fpn_cell_repeats"), PyInt(3)>>,
       <<K("fpn_num_filters"), PyInt(88)>>,
       <<K("separable_conv"), PyBool(TRUE)>>,
       <<K("apply_bn_for_resampling"), PyBool(TRUE)>>,
       <<K("conv_after_downsample"), PyBool(FALSE)>>,
       <<K("conv_bn_act_pattern"), PyBool(FALSE)>>,
       <<K("drop_remainder"), PyBool(TRUE)>>,
         <<K("nms_configs"), PyDict(<< <<K("method"), PyStr(<<"gaussian">>)>>,
                  <<K("iou_thresh"), PyNone>>,
                  <<K("score_thresh"), PyFloat("0.0")>>,
                  <<K("sigma"), PyNone>>,
                  <<K("pyfunc"), PyBool(TRUE)>>,
                  <<K("max_nms_inputs"), PyInt(5000)>>,
                  <<K("max_output_size"), PyInt(100)>> >>)>>,
       <<K("fpn_name"), PyNone>>,
       <<K("fpn_weight_method"), PyNone>>,
       <<K("fpn_config"), PyNone>>,
       <<K("survival_prob"), PyNone>>,
       <<K("img_summary_steps"), PyNone>>,
       <<K("lr_decay_method"), PyStr(<<"cosine">>)>>,
       <<K("moving_average_decay"), PyFloat("0.9998")>>,
       <<K("ckpt_var_scope"), PyNone>>,
       <<K("skip_mismatch"), PyBool(TRUE)>>,
       <<K("backbone_name"), PyStr(<<"efficientnet-b1">>)>>,
       <<K("backbone_config"), PyNone>>,
       <<K("backbone_init"), PyNone>>,
       <<K("var_freeze_expr"), PyNone>>,
       <<K("use_keras_model"), PyBool(TRUE)>>,
       <<K("dataset_type"), PyNone>>,
       <<K("positives_momentum"), PyNone>>,
       <<K("grad_checkpoint"), PyBool(FALSE)>>,
       <<K("set_num_threads"), PyInt(1)>>,
       <<K("use_xla"), PyBool(FALSE)>>,
       <<K("seed"), PyInt(42)>>,
       <<K("results_dir"), PyNone>>,
       <<K("freeze_blocks"), PyNone>>,
       <<K("freeze_bn"), PyBool(FALSE)>>,
       <<K("encryption_key"), PyNone>>,
       <<K("qat"), PyBool(FALSE)>>
    >>

\* default_detection_configs: h = Config(), then one __setattr__ per attribute
default_detection_configs == Config_update(<<>>, PyDict(DefaultDetectionItems), TRUE).self

efficientdet_model_param_dict ==
    <<
       <<<<"resdet", "18">>,
         PyDict(<< <<K("name"), PyStr(<<"resdet", "18">>)>>,
                  <<K("backbone_name"), PyStr(<<"resnet18">>)>>,
                  <<K("image_size"), PyInt(512)>>,
                  <<K("fpn_num_filters"), PyInt(64)>>,
                  <<K("fpn_cell_repeats"), PyInt(3)>>,
                  <<K("box_class_repeats"), PyInt(3)>> >>)>>,
       <<<<"resdet", "34">>,
         PyDict(<< <<K("name"), PyStr(<<"resdet", "34">>)>>,
                  <<K("backbone_name"), PyStr(<<"resnet34">>)>>,
                  <<K("image_size"), PyInt(512)>>,
                  <<K("fpn_num_filters"), PyInt(88)>>,
                  <<K("fpn_cell_repeats"), PyInt(4)>>,
                  <<K("box_class_repeats"), PyInt(3)>> >>)>>,
       <<<<"efficientdet", "-d0">>,
         PyDict(<< <<K("name"), PyStr(<<"efficientdet", "-d0">>)>>,
                  <<K("backbone_name"), PyStr(<<"efficientnet-b0">>)>>,
                  <<K("image_size"), PyInt(512)>>,
                  <<K("fpn_num_filters"), PyInt(64)>>,
                  <<K("fpn_cell_repeats"), PyInt(3)>>,
                  <<K("box_class_repeats"), PyInt(3)>> >>)>>,
       <<<<"efficientdet", "-d1">>,
         PyDict(<< <<K("name"), PyStr(<<"efficientdet", "-d1">>)>>,
                  <<K("backbone_name"), PyStr(<<"efficientnet-b1">>)>>,
                  <<K("image_size"), PyInt(640)>>,
                  <<K("fpn_num_filters"), PyInt(88)>>,
                  <<K("fpn_cell_repeats"), PyInt(4)>>,
                  <<K("box_class_repeats"), PyInt(3)>> >>)>>,
       <<<<"efficientdet", "-d2">>,
         PyDict(<< <<K("name"), PyStr(<<"efficientdet", "-d2">>)>>,
                  <<K("backbone_name"), PyStr(<<"efficientnet-b2">>)>>,
                  <<K("image_size"), PyInt(768)>>,
                  <<K("fpn_num_filters"), PyInt(112)>>,
                  <<K("fpn_cell_repeats"), PyInt(5)>>,
                  <<K("box_class_repeats"), PyInt(3)>> >>)>>,
       <<<<"efficientdet", "-d3">>,
         PyDict(<< <<K("name"), PyStr(<<"efficientdet", "-d3">>)>>,
                  <<K("backbone_name"), PyStr(<<"efficientnet-b3">>)>>,
                  <<K("image_size"), PyInt(896)>>,
                  <<K("fpn_num_filters"), PyInt(160)>>,
                  <<K("fpn_cell_repeats"), PyInt(6)>>,
                  <<K("box_class_repeats"), PyInt(4)>> >>)>>,
       <<<<"efficientdet", "-d4">>,
         PyDict(<< <<K("name"), PyStr(<<"efficientdet", "-d4">>)>>,
                  <<K("backbone_name"), PyStr(<<"efficientnet-b4">>)>>,
                  <<K("image_size"), PyInt(1024)>>,
                  <<K("fpn_num_filters"), PyInt(224)>>,
                  <<K("fpn_cell_repeats"), PyInt(7)>>,
                  <<K("box_class_repeats"), PyInt(4)>> >>)>>,
       <<<<"efficientdet", "-d5">>,
         PyDict(<< <<K("name"), PyStr(<<"efficientdet", "-d5">>)>>,
                  <<K("backbone_name"), PyStr(<<"efficientnet-b5">>)>>,
                  <<K("image_size"), PyInt(1280)>>,
                  <<K("fpn_num_filters"), PyInt(288)>>,
                  <<K("fpn_cell_repeats"), PyInt(7)>>,
                  <<K("box_class_repeats"), PyInt(4)>> >>)>>,
       <<<<"efficientdet", "-d6">>,
         PyDict(<< <<K("name"), PyStr(<<"efficientdet", "-d6">>)>>,
                  <<K("backbone_name"), PyStr(<<"efficientnet-b6">>)>>,
                  <<K("image_size"), PyInt(1280)>>,
                  <<K("fpn_num_filters"), PyInt(384)>>,
                  <<K("fpn_cell_repeats"), PyInt(8)>>,
                  <<K("box_class_repeats"), PyInt(5)>>,
                  <<K("fpn_weight_method"), PyStr(<<"sum">>)>> >>)>>,
       <<<<"efficientdet", "-d7">>,
         PyDict(<< <<K("name"), PyStr(<<"efficientdet", "-d7">>)>>,
                  <<K("backbone_name"), PyStr(<<"efficientnet-b6">>)>>,
                  <<K("image_size"), PyInt(1536)>>,
                  <<K("fpn_num_filters"), PyInt(384)>>,
                  <<K("fpn_cell_repeats"), PyInt(8)>>,
                  <<K("box_class_repeats"), PyInt(5)>>,
                  <<K("anchor_scale"), PyFloat("5.0")>>,
                  <<K("fpn_weight_method"), PyStr(<<"sum">>)>> >>)>>,
       <<<<"efficientdet", "-d7", "x">>,
         PyDict(<< <<K("name"), PyStr(<<"efficientdet", "-d7", "x">>)>>,
                  <<K("backbone_name"), PyStr(<<"efficientnet-b7">>)>>,
                  <<K("image_size"), PyInt(1536)>>,
                  <<K("fpn_num_filters"), PyInt(384)>>,
                  <<K("fpn_cell_repeats"), PyInt(8)>>,
                  <<K("box_class_repeats"), PyInt(5)>>,
                  <<K("anchor_scale"), PyFloat("4.0")>>,
                  <<K("max_level"), PyInt(8)>>,
                  <<K("fpn_weight_method"), PyStr(<<"sum">>)>> >>)>>
    >>

\* get_efficientdet_config
get_efficientdet_config(model_name) ==
    IF HasKey(efficientdet_model_param_dict, model_name)
    THEN LET r == Config_override(default_detection_configs,
                                  GetItem(efficientdet_model_param_dict, model_name),
                                  FALSE, [exc |-> "none", val |-> PyNone])
         IN [exc |-> r.exc, by |-> "Config.override",
             val |-> IF r.exc = "none" THEN r.self ELSE <<>>]
    ELSE [exc |-> "ValueError", by |-> "get_efficientdet_config", val |-> <<>>]

\* str.startswith for a prefix that is one lexeme
StartsWith(s, prefix) == s # <<>> /\ s[1] = prefix

\* get_detection_config that knows the 'efficientdet' prefix only
get_detection_config_oneprefix(model_name) ==
    IF StartsWith(model_name, "efficientdet")
    THEN get_efficientdet_config(model_name)
    ELSE [exc |-> "ValueError", by |-> "get_detection_config", val |-> <<>>]

\* get_detection_config
get_detection_config(model_name) ==
    IF StartsWith(model_name, "efficientdet") \/ StartsWith(model_name, "resdet")
    THEN get_efficientdet_config(model_name)
    ELSE [exc |-> "ValueError", by |-> "get_detection_config", val |-> <<>>]

DetInit ==
    /\ det_name \in SeqsUpTo(NameLexemes, MaxNameLen)
    /\ det_ret = [exc |-> "none", by |-> "", val |-> <<>>]
    /\ det_pc = "ready"

DetIdle ==
    /\ det_name = <<>>
    /\ det_ret = [exc |-> "none", by |-> "", val |-> <<>>]
    /\ det_pc = "ready"

\* get_detection_config(model_name)
DetGet ==
    /\ det_pc = "ready"
    /\ det_ret' = get_detection_config(det_name)
    /\ det_pc' = "done"
    /\ UNCHANGED det_name
    /\ UNCHANGED det_frame

\* ------------------------------------------------------------------------
\* The classmap block of run_evaluate (cv/classification/scripts/evaluate.py)
\* The classmap is the item sequence of the dict json.load returns, class
\* name to index; an index is an int, a bool (JSON true/false), a float
\* (<<"float", k>> is k/2), a str or None (JSON null).
\* ------------------------------------------------------------------------
MaxClasses == 3

ClassNames == {"cat", "dog", "bird"}

ClassIndices ==
    {PyInt(i) : i \in (0 - MaxClasses - 1)..MaxClasses}
        \cup {PyBool(TRUE), PyBool(FALSE), <<"float", 1>>, <<"float", 2>>,
              PyStr(<<"0">>), PyNone}

\* class_index < len(class_names): raises TypeError for a str or None
IndexLess(class_index, n) ==
    CASE class_index[1] = "int" -> [exc |-> "none", val |-> class_index[2] < n]
      [] class_index[1] = "bool" ->
            [exc |-> "none", val |-> (IF class_index[2] THEN 1 ELSE 0) < n]
      [] class_index[1] = "float" -> [exc |-> "none", val |-> class_index[2] < 2 * n]
      [] OTHER -> [exc |-> "TypeError", val |-> FALSE]

\* isinstance(class_index, int): bool is a subclass of int
IsInstanceInt(class_index) == class_index[1] \in {"int", "bool"}

\* the position list.__setitem__ writes for an index, 1-based; 0 is no
\* position (IndexError)
ListPosition(class_index, n) ==
    LET i == IF class_index[1] = "bool" THEN (IF class_index[2] THEN 1 ELSE 0)
             ELSE class_index[2]
    IN IF 0 <= i /\ i < n THEN i + 1
       ELSE IF 0 - n <= i /\ i < 0 THEN n + i + 1
       ELSE 0

\* for class_name, class_index in data.items(): class_names[class_index] = class_name
RECURSIVE AssignNames(_, _, _)
AssignNames(class_names, data, i) ==
    IF i > Len(data) THEN [exc |-> "none", class_names |-> PyList(class_names)]
    ELSE LET pos == ListPosition(data[i][2], Len(class_names))
         IN IF pos = 0 THEN [exc |-> "IndexError", class_names |-> PyNone]
            ELSE AssignNames([class_names EXCEPT ![pos] = data[i][1]], data, i + 1)

\* run_evaluate, from "if not data" to the end of the classmap block
build_class_names(data) ==
    IF data = <<>> THEN [exc |-> "none", class_names |-> PyNone]
    ELSE LET class_names == [i \in 1..Len(data) |-> ""]
         IN IF \E i \in DOMAIN data : IndexLess(data[i][2], Len(class_names)).exc # "none"
            THEN [exc |-> "TypeError", class_names |-> PyNone]
            ELSE IF ~(\A i \in DOMAIN data :
                        /\ IndexLess(data[i][2], Len(class_names)).val
                        /\ IsInstanceInt(data[i][2]))
            THEN [exc |-> "RuntimeError", class_names |-> PyNone]
            ELSE AssignNames(class_names, data, 1)

\* the classmaps: each class name at most once (a JSON object read into a dict)
ClassNameLists ==
    {ns \in SeqsUpTo(ClassNames, MaxClasses) :
        \A i, j \in DOMAIN ns : ns[i] = ns[j] => i = j}

\* the classmaps with the class names ns, in that order
ClassmapsOf(ns) ==
    {[i \in DOMAIN ns |-> <<ns[i], ix[i]>>] : ix \in [DOMAIN ns -> ClassIndices]}

CmInit ==
    /\ \E ns \in ClassNameLists : cm_data \in ClassmapsOf(ns)
    /\ cm_exc = "none"
    /\ cm_names = PyNone
    /\ cm_pc = "ready"

CmIdle ==
    /\ cm_data = <<>>
    /\ cm_exc = "none"
    /\ cm_names = PyNone
    /\ cm_pc = "ready"

\* run_evaluate with a classmap file that json.load read as cm_data
CmBuild ==
    /\ cm_pc = "ready"
    /\ \E r \in {build_class_names(cm_data)} :
          /\ cm_exc' = r.exc
          /\ cm_names' = r.class_names
    /\ cm_pc' = "done"
    /\ UNCHANGED cm_data
    /\ UNCHANGED cm_frame

\* ------------------------------------------------------------------------
\* Properties of Config.override
\* ------------------------------------------------------------------------
\* every key path of a Config, interior nodes included
RECURSIVE AllPaths(_)
AllPaths(items) ==
    UNION { {<<items[i][1]>>}
                \cup (IF items[i][2][1] \in {"Config", "dict"}
                      THEN {<<items[i][1]>> \o q : q \in AllPaths(items[i][2][2])}
                      ELSE {}) : i \in DOMAIN items }

\* the value at a key path of a Config
RECURSIVE ValueAt(_, _)
ValueAt(items, path) ==
    IF Len(path) = 1 THEN GetItem(items, path[1])
    ELSE ValueAt(GetItem(items, path[1])[2], Tail(path))

LeafPaths(items) == {q \in AllPaths(items) : ValueAt(items, q)[1] # "Config"}

\* s is 'k1.k2...kn=v' for the key path and some v free of ',' and '='
IsAssignTo(s, path) ==
    LET ps == PathStr(path)
    IN /\ Len(s) > Len(ps)
       /\ SubSeq(s, 1, Len(ps) + 1) = ps \o <<"=">>
       /\ \A i \in (Len(ps) + 2)..Len(s) : s[i] \notin {"=", ","}

AssignedStr(s, path) == SubSeq(s, Len(PathStr(path)) + 2, Len(s))

Base == <<  <<Ka, PyConfig(<< <<Kb, PyInt(1)>>, <<Kc, PyInt(2)>> >>)>>  >>

ArgPaths(arg) ==
    IF arg[1] = "dict" THEN AllPaths(arg[2])
    ELSE IF arg[1] = "str" /\ "=" \in Range(arg[2]) /\ parse_from_str(arg[2]).exc = "none"
    THEN AllPaths(parse_from_str(arg[2]).val[2])
    ELSE {}

\* C5: with allow_new_keys=False an override (dict or string) that names a
\* key path absent from the Config is rejected with a key error, and after an
\* override that returns normally the Config has no key path that it did not
\* have before.
C5_NoNewKeyPaths ==
    (cfg_pc = "done" /\ ~cfg_allow /\ cfg_arg[1] \in {"str", "dict"}) =>
        /\ (ArgPaths(cfg_arg) \ AllPaths(cfg_old) # {} => cfg_exc = "KeyError")
        /\ (cfg_exc = "none" => AllPaths(cfg) \subseteq AllPaths(cfg_old))

\* what the value string v of 'a.b=v' is to become: 'true'/'false' the
\* booleans, else the literal value, else the raw string
EvaluatedScalar(t) ==
    IF t = <<"true">> THEN PyBool(TRUE)
    ELSE IF t = <<"false">> THEN PyBool(FALSE)
    ELSE IF literal_eval(t).exc = "none" THEN literal_eval(t).val
    ELSE PyStr(t)

EvaluatedValue(v) ==
    IF "*" \in Range(v)
    THEN PyList([i \in DOMAIN StrSplit(v, "*") |-> EvaluatedScalar(StrSplit(v, "*")[i])])
    ELSE EvaluatedScalar(v)

\* C6: override('a.b=v') sets a.b to the list of the literal values of the
\* parts of v between '*' when v contains '*', else to the literal value of
\* v; a part (or v) whose literal evaluation fails stays the raw string, and
\* 'true'/'false' become the booleans.
C6_ValueEvaluation ==
    (cfg_pc = "done" /\ cfg_arg[1] = "str" /\ IsAssignTo(cfg_arg[2], <<Ka, Kb>>)) =>
        /\ cfg_exc = "none"
        /\ ValueAt(cfg, <<Ka, Kb>>) = EvaluatedValue(AssignedStr(cfg_arg[2], <<Ka, Kb>>))

\* C6 with the failure that escapes eval_str_fn set apart: the call raises
\* TypeError, and leaves the Config alone, exactly when a part of v is a
\* literal whose evaluation raises TypeError; otherwise C6_ValueEvaluation.
C6_ValueEvaluationButTypeError ==
    (cfg_pc = "done" /\ cfg_arg[1] = "str" /\ IsAssignTo(cfg_arg[2], <<Ka, Kb>>)) =>
        LET v == AssignedStr(cfg_arg[2], <<Ka, Kb>>)
            parts == StrSplit(v, "*")
        IN IF \E i \in DOMAIN parts : literal_eval(parts[i]).exc = "TypeError"
           THEN cfg_exc = "TypeError" /\ cfg = cfg_old
           ELSE /\ cfg_exc = "none"
                /\ ValueAt(cfg, <<Ka, Kb>>) = EvaluatedValue(v)

\* the argument is a string without '=' that does not end in '.yaml', or is
\* neither a string nor a dict
C7_BadArg ==
    \/ cfg_arg[1] = "str" /\ "=" \notin Range(cfg_arg[2]) /\ ~EndsWithYaml(cfg_arg[2])
    \/ cfg_arg[1] \notin {"str", "dict"}

\* C7 as claimed: every such argument, the empty string included, is rejected
\* with the invalid-input error and the Config is unchanged.
C7_Original ==
    (cfg_pc = "done" /\ C7_BadArg) => (cfg_exc = "ValueError" /\ cfg = cfg_old)

\* C7: a non-empty string without '=' that does not end in '.yaml', and a
\* value that is neither a string nor a dict, is rejected with the
\* invalid-input error; the empty string returns normally; the Config is
\* unchanged in each case.
C7_BadStringRejected ==
    (cfg_pc = "done" /\ C7_BadArg) =>
        /\ cfg = cfg_old
        /\ cfg_exc = IF cfg_arg = PyStr(<<>>) THEN "none" ELSE "ValueError"

C7_Witness ==
    /\ cfg_pc = "done"
    /\ cfg_arg = PyStr(<<"a", ".", "yaml", "2">>)
    /\ cfg_exc = "ValueError"
    /\ cfg = cfg_old

\* ------------------------------------------------------------------------
\* Properties of get_detection_config
\* ------------------------------------------------------------------------
PresetNames ==
    { <<"resdet", "18">>, <<"resdet", "34">>,
      <<"efficientdet", "-d0">>, <<"efficientdet", "-d1">>, <<"efficientdet", "-d2">>,
      <<"efficientdet", "-d3">>, <<"efficientdet", "-d4">>, <<"efficientdet", "-d5">>,
      <<"efficientdet", "-d6">>, <<"efficientdet", "-d7">>,
      <<"efficientdet", "-d7", "x">> }

\* C8: get_detection_config succeeds exactly for the eleven preset names and
\* then returns the default config with the preset's fields overridden and
\* every other hyperparameter at its default (efficientdet-d6: 'sum', 384, 5,
\* max_level 7); any other name raises ValueError, raised by
\* get_detection_config itself when the name starts with neither prefix.
C8_PresetLookup ==
    det_pc = "done" =>
        IF det_name \in PresetNames
        THEN /\ det_ret.exc = "none"
             /\ Len(det_ret.val) = Len(default_detection_configs)
             /\ LET preset == GetItem(efficientdet_model_param_dict, det_name)[2]
                IN \A i \in DOMAIN default_detection_configs :
                      LET k == default_detection_configs[i][1]
                      IN /\ det_ret.val[i][1] = k
                         /\ det_ret.val[i][2] =
                               IF HasKey(preset, k) THEN GetItem(preset, k)
                               ELSE default_detection_configs[i][2]
             /\ det_name = <<"efficientdet", "-d6">> =>
                   /\ GetItem(det_ret.val, K("fpn_weight_method")) = PyStr(<<"sum">>)
                   /\ GetItem(det_ret.val, K("fpn_num_filters")) = PyInt(384)
                   /\ GetItem(det_ret.val, K("box_class_repeats")) = PyInt(5)
                   /\ GetItem(det_ret.val, K("max_level")) = PyInt(7)
        ELSE /\ det_ret.exc = "ValueError"
             /\ det_ret.val = <<>>
             /\ (det_name = <<>> \/ det_name[1] \notin {"efficientdet", "resdet"})
                   => det_ret.by = "get_detection_config"

C8_Witness ==
    /\ det_pc = "done"
    /\ det_name = <<"efficientdet", "-d6">>
    /\ det_ret.exc = "none"
    /\ GetItem(det_ret.val, K("fpn_weight_method")) = PyStr(<<"sum">>)
    /\ GetItem(det_ret.val, K("max_level")) = PyInt(7)

\* ------------------------------------------------------------------------
\* Properties of the classmap block of run_evaluate
\* ------------------------------------------------------------------------
\* the index is an integer i with 0 <= i < n
GoodIndex(class_index, n) ==
    class_index[1] = "int" /\ 0 <= class_index[2] /\ class_index[2] < n

\* the index is negative, or not an integer, or an integer >= n (JSON
\* true/false are left out: Python takes them for the integers 1 and 0)
BadIndex(class_index, n) ==
    \/ class_index[1] = "int" /\ (class_index[2] < 0 \/ class_index[2] >= n)
    \/ class_index[1] \in {"float", "str", "none"}

\* C9: a non-empty classmap with an index that is negative, not an integer or
\* >= the number of classes is rejected, and an accepted one gives
\* class_names[index] = name for every entry.
C9_ClassmapIndexChecked ==
    (cm_pc = "done" /\ cm_data # <<>>) =>
        /\ (\E i \in DOMAIN cm_data : BadIndex(cm_data[i][2], Len(cm_data)))
              => cm_exc # "none"
        /\ cm_exc = "none" =>
              \A i \in DOMAIN cm_data :
                  GoodIndex(cm_data[i][2], Len(cm_data)) =>
                      cm_names[2][cm_data[i][2][2] + 1] = cm_data[i][1]

\* C10: an accepted non-empty classmap whose indices are integers in 0..n-1
\* gives a class-name list with no position left as the empty placeholder and
\* no class name lost.
C10_ClassmapBijection ==
    (/\ cm_pc = "done" /\ cm_data # <<>> /\ cm_exc = "none"
     /\ \A i \in DOMAIN cm_data : GoodIndex(cm_data[i][2], Len(cm_data))) =>
        /\ \A j \in DOMAIN cm_names[2] : cm_names[2][j] # ""
        /\ \A i \in DOMAIN cm_data : \E j \in DOMAIN cm_names[2] :
              cm_names[2][j] = cm_data[i][1]

\* ------------------------------------------------------------------------
\* Reading the classmap file (cv/classification/scripts/evaluate.py, 89-100)
\* ------------------------------------------------------------------------
MaxFileLen == 5

\* a byte that is not valid UTF-8
BadByte == "0xFF"

\* the pieces of a classmap file: "cat" is the JSON string "cat" with its quotes
FileTokens == {"{", "}", "cat", ":", "0", BadByte}

ClassmapFiles ==
    {[exists |-> FALSE, bytes |-> <<>>]}
    \cup {[exists |-> TRUE, bytes |-> b] : b \in SeqsUpTo(FileTokens, MaxFileLen)}

JsonFail == [ok |-> FALSE, val |-> PyNone, next |-> 0]

RECURSIVE json_value(_, _)
RECURSIVE json_members(_, _, _)
\* the JSON decoder on the value that starts at position i of s
json_value(s, i) ==
    IF i > Len(s) THEN JsonFail
    ELSE IF s[i] = "0" THEN [ok |-> TRUE, val |-> PyInt(0), next |-> i + 1]
    ELSE IF s[i] = "cat" THEN [ok |-> TRUE, val |-> PyStr(<<"cat">>), next |-> i + 1]
    ELSE IF s[i] = "{"
         THEN IF i + 1 <= Len(s) /\ s[i + 1] = "}"
              THEN [ok |-> TRUE, val |-> PyDict(<<>>), next |-> i + 2]
              ELSE json_members(s, i + 1, <<>>)
    ELSE JsonFail

\* the members of an object, from position i; a repeated key keeps its last value
json_members(s, i, items) ==
    IF i + 1 > Len(s) \/ s[i] # "cat" \/ s[i + 1] # ":" THEN JsonFail
    ELSE LET v == json_value(s, i + 2)
         IN IF ~v.ok \/ v.next > Len(s) THEN JsonFail
            ELSE LET items2 == <<<<"cat", v.val>>>>
                 IN IF s[v.next] = "," THEN json_members(s, v.next + 1, items2)
                    ELSE IF s[v.next] = "}"
                         THEN [ok |-> TRUE, val |-> PyDict(items2), next |-> v.next + 1]
                    ELSE JsonFail

\* json.load(cmap_file): decode the file as UTF-8, then parse all of it
json_load(bytes) ==
    IF BadByte \in Range(bytes) THEN [exc |-> "UnicodeDecodeError", val |-> PyNone]
    ELSE LET v == json_value(bytes, 1)
         IN IF v.ok /\ v.next = Len(bytes) + 1 THEN [exc |-> "none", val |-> v.val]
            ELSE [exc |-> "JSONDecodeError", val |-> PyNone]

\* hasattr(e, "output"): no exception json.load raises has that attribute
HasOutputAttr(exc) == exc \in {"CalledProcessError", "TimeoutExpired"}

NoExit == <<>>

\* run_evaluate, lines 91-100: open the file and load it
read_classmap(file) ==
    IF ~file.exists
    THEN [exc |-> "FileNotFoundError", exit |-> NoExit, data |-> PyNone]
    ELSE LET r == json_load(file.bytes)
         IN IF r.exc = "none" THEN [exc |-> "none", exit |-> NoExit, data |-> r.val]
            ELSE IF r.exc = "JSONDecodeError"
                 THEN [exc |-> "none", exit |-> <<-1>>, data |-> PyNone]
            ELSE IF ~HasOutputAttr(r.exc)
                 THEN [exc |-> "AttributeError", exit |-> NoExit, data |-> PyNone]
            ELSE [exc |-> "none", exit |-> <<-1>>, data |-> PyNone]

CmrInit ==
    /\ cmr_file \in ClassmapFiles
    /\ cmr_out = [exc |-> "none", exit |-> NoExit, data |-> PyNone]
    /\ cmr_pc = "ready"

CmrIdle ==
    /\ cmr_file = [exists |-> FALSE, bytes |-> <<>>]
    /\ cmr_out = [exc |-> "none", exit |-> NoExit, data |-> PyNone]
    /\ cmr_pc = "ready"

CmrRead ==
    /\ cmr_pc = "ready"
    /\ cmr_out' = read_classmap(cmr_file)
    /\ cmr_pc' = "done"
    /\ UNCHANGED cmr_file
    /\ UNCHANGED cmr_frame

\* C11: whenever json.load fails on the classmap file, whatever the exception,
\* the process exits with code -1 and no exception escapes.
C11_ReadFailureExits ==
    (/\ cmr_pc = "done" /\ cmr_file.exists
     /\ json_load(cmr_file.bytes).exc # "none") =>
        /\ cmr_out.exc = "none"
        /\ cmr_out.exit = <<-1>>

\* the same for the malformed-JSON failures alone (this part holds)
C11_MalformedJsonExits ==
    (/\ cmr_pc = "done" /\ cmr_file.exists
     /\ json_load(cmr_file.bytes).exc = "JSONDecodeError") =>
        /\ cmr_out.exc = "none"
        /\ cmr_out.exit = <<-1>>

\* ------------------------------------------------------------------------
\* batch_generator (cv/efficientdet/scripts/inference.py, 40-49)
\* ------------------------------------------------------------------------
MaxListLen == 4
MaxBatch == 3

ImagePaths == {"a.jpg", "b.jpg"}
BatchLists == SeqsUpTo(ImagePaths, MaxListLen)
BatchSizes == (-1)..MaxBatch

Min(a, b) == IF a < b THEN a ELSE b

\* a range that stops before the last, shorter step
range_more_fullonly(ndx, total_len, batch_size) ==
    IF batch_size > 0 THEN ndx + batch_size <= total_len ELSE ndx > total_len

\* range(0, total_len, batch_size) has an element at ndx
range_more(ndx, total_len, batch_size) ==
    IF batch_size > 0 THEN ndx < total_len ELSE ndx > total_len

\* iterable[ndx:min(ndx + batch_size, total_len)]
batch_slice(iterable, ndx, batch_size, total_len) ==
    SubSeq(iterable, ndx + 1, Min(ndx + batch_size, total_len))

BgInit ==
    /\ bg_list \in BatchLists
    /\ bg_size \in BatchSizes
    /\ bg_ndx = 0
    /\ bg_out = <<>>
    /\ bg_exc = "none"
    /\ bg_pc = "created"

BgIdle ==
    /\ bg_list = <<>>
    /\ bg_size = 1
    /\ bg_ndx = 0
    /\ bg_out = <<>>
    /\ bg_exc = "none"
    /\ bg_pc = "created"

\* next() on the generator: run it to its next yield, or to its end
BgNext ==
    /\ bg_pc \in {"created", "suspended"}
    /\ IF bg_pc = "created" /\ bg_size = 0
       THEN \* range() arg 3 must not be zero
            /\ bg_exc' = "ValueError"
            /\ bg_pc' = "finished"
            /\ UNCHANGED <<bg_ndx, bg_out>>
       ELSE IF range_more(bg_ndx, Len(bg_list), bg_size)
       THEN /\ bg_out' = Append(bg_out, batch_slice(bg_list, bg_ndx, bg_size, Len(bg_list)))
            /\ bg_ndx' = bg_ndx + bg_size
            /\ bg_pc' = "suspended"
            /\ UNCHANGED bg_exc
       ELSE /\ bg_pc' = "finished"
            /\ UNCHANGED <<bg_ndx, bg_out, bg_exc>>
    /\ UNCHANGED <<bg_list, bg_size>>
    /\ UNCHANGED bg_frame

RECURSIVE Concat(_)
Concat(ss) == IF ss = <<>> THEN <<>> ELSE Head(ss) \o Concat(Tail(ss))

CeilDiv(n, d) == (n + d - 1) \div d

\* C12: with batch_size >= 1 the batches yielded so far are consecutive slices
\* of the list in order, all of length batch_size except possibly a shorter,
\* non-empty last one; when the generator ends there are ceil(len/batch_size)
\* of them and their concatenation is the list (nothing for the empty list).
C12_BatchesPartitionList ==
    bg_size >= 1 =>
        /\ bg_exc = "none"
        /\ Concat(bg_out) = SubSeq(bg_list, 1, Len(Concat(bg_out)))
        /\ \A i \in DOMAIN bg_out :
              /\ bg_out[i] # <<>>
              /\ Len(bg_out[i]) <= bg_size
              /\ Len(bg_out[i]) < bg_size => (i = Len(bg_out) /\ Concat(bg_out) = bg_list)
        /\ bg_pc = "finished" =>
              /\ Concat(bg_out) = bg_list
              /\ Len(bg_out) = CeilDiv(Len(bg_list), bg_size)

C12_Witness ==
    /\ bg_pc = "finished" /\ bg_size = 2 /\ Len(bg_list) = 3
    /\ Len(bg_out) = 2 /\ Len(bg_out[2]) = 1

\* ------------------------------------------------------------------------
\* get_label_dict (cv/efficientdet/scripts/inference.py, 33-37)
\* ------------------------------------------------------------------------
MaxLabelFileLen == 5

\* the newline character
NL == "LF"

\* a label file is a sequence of characters
LabelChars == {"c", "d", NL}
LabelFiles == SeqsUpTo(LabelChars, MaxLabelFileLen)

RECURSIVE readlines_from(_, _, _)
\* f.readlines() from position i on, cur the line read so far: each line keeps
\* its newline, a last line without one is a line too
readlines_from(s, i, cur) ==
    IF i > Len(s) THEN (IF cur = <<>> THEN <<>> ELSE <<cur>>)
    ELSE IF s[i] = NL THEN <<Append(cur, NL)>> \o readlines_from(s, i + 1, <<>>)
    ELSE readlines_from(s, i + 1, Append(cur, s[i]))

readlines(s) == readlines_from(s, 1, <<>>)

\* label[:-1]
DropLast(label) == SubSeq(label, 1, Len(label) - 1)

\* the dict {i + 1: label[:-1] ...}, as the function from its keys 1..n
get_label_dict(file) ==
    LET labels == readlines(file)
    IN [i \in 1..Len(labels) |-> DropLast(labels[i])]

LdInit ==
    /\ ld_file \in LabelFiles
    /\ ld_ret = <<>>
    /\ ld_pc = "ready"

LdIdle ==
    /\ ld_file = <<>>
    /\ ld_ret = <<>>
    /\ ld_pc = "ready"

LdGet ==
    /\ ld_pc = "ready"
    /\ ld_ret' = get_label_dict(ld_file)
    /\ ld_pc' = "done"
    /\ UNCHANGED ld_file
    /\ UNCHANGED ld_frame

\* a line with its trailing newline, if it has one, removed and nothing else
StripNewline(line) ==
    IF line # <<>> /\ line[Len(line)] = NL THEN SubSeq(line, 1, Len(line) - 1)
    ELSE line

\* C13: the result has the keys 1..n, n the number of lines of the file, and
\* key i holds line i without its trailing newline and otherwise whole, also
\* for a last line that has no trailing newline.
C13_LabelsStripNewlineOnly ==
    ld_pc = "done" =>
        /\ DOMAIN ld_ret = 1..Len(readlines(ld_file))
        /\ \A i \in DOMAIN ld_ret : ld_ret[i] = StripNewline(readlines(ld_file)[i])

\* the same for files whose every line ends with a newline (this part holds)
C13_LabelsOfTerminatedLines ==
    (/\ ld_pc = "done"
     /\ (ld_file = <<>> \/ ld_file[Len(ld_file)] = NL)) =>
        /\ DOMAIN ld_ret = 1..Len(readlines(ld_file))
        /\ \A i \in DOMAIN ld_ret : ld_ret[i] = StripNewline(readlines(ld_file)[i])

\* ------------------------------------------------------------------------
\* get_model (makenet/model/model_builder.py, 398-444)
\* ------------------------------------------------------------------------
MaxArchLen == 3

\* an architecture name is a sequence of these pieces
ArchLexemes == {"resnet", "efficientnet_b", "0", "1", "2", "3", "4", "5", "6", "7", "8", "x"}
ArchNames == SeqsUpTo(ArchLexemes, MaxArchLen)

\* the keys of model_choose
model_choose_keys ==
    {<<"resnet">>} \cup {<<"efficientnet_b", d>> : d \in {"0", "1", "2", "3", "4", "5", "6", "7"}}

\* model_choose[arch], for a key of the dict: the name of the constructor
model_choose(arch) ==
    IF arch = <<"resnet">> THEN "get_resnet" ELSE "get_efficientnet_b" \o arch[2]

\* 'efficientnet_b' in arch
is_efficientnet(arch) == "efficientnet_b" \in Range(arch)

\* get_model(arch, **kwargs); kwargs_ok: kwargs holds the keys the branch reads
get_model(arch, kwargs_ok) ==
    IF arch # <<"resnet">> /\ ~is_efficientnet(arch)
    THEN [exc |-> "ValueError", msg |-> <<"Unsupported architecture: ", arch>>, called |-> "none"]
    ELSE IF ~kwargs_ok THEN [exc |-> "KeyError", msg |-> <<"kwargs">>, called |-> "none"]
    ELSE IF arch \notin model_choose_keys
         THEN [exc |-> "KeyError", msg |-> <<arch>>, called |-> "none"]
    ELSE [exc |-> "none", msg |-> <<>>, called |-> model_choose(arch)]

GmInit ==
    /\ gm_arch \in ArchNames
    /\ gm_kwargs_ok \in BOOLEAN
    /\ gm_ret = [exc |-> "none", msg |-> <<>>, called |-> "none"]
    /\ gm_pc = "ready"

GmIdle ==
    /\ gm_arch = <<>>
    /\ gm_kwargs_ok = FALSE
    /\ gm_ret = [exc |-> "none", msg |-> <<>>, called |-> "none"]
    /\ gm_pc = "ready"

GmGet ==
    /\ gm_pc = "ready"
    /\ gm_ret' = get_model(gm_arch, gm_kwargs_ok)
    /\ gm_pc' = "done"
    /\ UNCHANGED <<gm_arch, gm_kwargs_ok>>
    /\ UNCHANGED gm_frame

\* C14: a constructor is called exactly for the nine supported names (given
\* the keyword arguments the constructor needs); every other name, also one
\* that contains 'efficientnet_b', fails with the ValueError 'Unsupported
\* architecture' naming it, and no constructor is called.
C14_UnsupportedArchRejected ==
    (gm_pc = "done" /\ gm_kwargs_ok) =>
        /\ gm_arch \in model_choose_keys =>
              (gm_ret.exc = "none" /\ gm_ret.called = model_choose(gm_arch))
        /\ gm_arch \notin model_choose_keys =>
              /\ gm_ret.exc = "ValueError"
              /\ gm_ret.msg = <<"Unsupported architecture: ", gm_arch>>
              /\ gm_ret.called = "none"

\* what holds of the code: a constructor is called only for the nine names,
\* and the names without 'efficientnet_b' other than resnet get the ValueError
C14_DispatchOnlySupported ==
    gm_pc = "done" =>
        /\ gm_ret.called # "none" => gm_arch \in model_choose_keys
        /\ (gm_arch \in model_choose_keys /\ gm_kwargs_ok) =>
              (gm_ret.exc = "none" /\ gm_ret.called = model_choose(gm_arch))
        /\ (gm_arch # <<"resnet">> /\ ~is_efficientnet(gm_arch)) =>
              gm_ret.exc = "ValueError"

\* ------------------------------------------------------------------------
\* Pretrained-weight transplant (nvidia_tao_tf2/.../scripts/train.py, 127-139)
\* ------------------------------------------------------------------------
MaxLayers == 3

LayerNames == {"conv_a", "conv_b", "conv_c"}

\* the shapes of a layer's weight arrays: a layer has no weights or one array
WeightShapes == {<<>>, <<"3x3">>, <<"1x1">>}

\* pretrained_model.layers: layers with distinct names, each with its weights
PretrainedModels ==
    {ls \in SeqsUpTo([name : LayerNames, shapes : WeightShapes], MaxLayers) :
        \A i, j \in DOMAIN ls : ls[i].name = ls[j].name => i = j}

\* the weights a layer of the training model starts with
OwnWeights(name) == <<"own", name>>

\* the weights of layer i of the pretrained model
PretrainedWeights(i) == <<"pretrained", i>>

\* the training model: its layers by name, each with its shapes and weights
TrainingModels ==
    UNION {[ns -> WeightShapes] : ns \in SUBSET LayerNames}

\* model.get_layer(name): ValueError when there is no such layer
get_layer(model, name) ==
    IF name \in DOMAIN model THEN [exc |-> "none", layer |-> <<name>>]
    ELSE [exc |-> "ValueError", layer |-> <<>>]

\* layer.set_weights(weights): ValueError when the number of arrays or a shape
\* differs, and then no array of the layer is assigned
set_weights(layer, shapes, weights) ==
    IF layer.shapes # shapes THEN [exc |-> "ValueError", layer |-> layer]
    ELSE [exc |-> "none", layer |-> [layer EXCEPT !.weights = weights]]

\* the loop body that lets the ValueError of set_weights go
transplant_layer_nocatch(model, pretrained, i) ==
    LET l_return == get_layer(model, pretrained[i].name)
    IN IF l_return.exc # "none"
       THEN [exc |-> "none", model |-> model, log |-> <<"not exist", pretrained[i].name>>]
       ELSE LET n == l_return.layer[1]
                r == set_weights(model[n], pretrained[i].shapes, PretrainedWeights(i))
            IN [exc |-> r.exc, model |-> [model EXCEPT ![n] = r.layer],
                log |-> <<"copied", n>>]

\* the loop body for layer i of the pretrained model (lines 129-139)
transplant_layer(model, pretrained, i) ==
    LET l_return == get_layer(model, pretrained[i].name)
    IN IF l_return.exc = "ValueError"
       THEN [exc |-> "none", model |-> model, log |-> <<"not exist", pretrained[i].name>>]
       ELSE LET n == l_return.layer[1]
                r == set_weights(model[n], pretrained[i].shapes, PretrainedWeights(i))
            IN IF r.exc = "ValueError"
               THEN [exc |-> "none", model |-> model, log |-> <<"shape mismatch", n>>]
               ELSE [exc |-> "none", model |-> [model EXCEPT ![n] = r.layer],
                     log |-> <<"copied", n>>]

TpInit ==
    /\ tp_pretrained \in PretrainedModels
    /\ \E shapes \in TrainingModels :
          tp_model = [n \in DOMAIN shapes |->
                        [shapes |-> shapes[n], weights |-> OwnWeights(n)]]
    /\ tp_i = 2
    /\ tp_log = <<>>
    /\ tp_exc = "none"
    /\ tp_pc = "loop"

TpIdle ==
    /\ tp_pretrained = <<>>
    /\ tp_model = <<>>
    /\ tp_i = 2
    /\ tp_log = <<>>
    /\ tp_exc = "none"
    /\ tp_pc = "loop"

\* one iteration of `for layer in pretrained_model.layers[1:]`
TpLayer ==
    /\ tp_pc = "loop"
    /\ tp_i <= Len(tp_pretrained)
    /\ \E r \in {transplant_layer(tp_model, tp_pretrained, tp_i)} :
          /\ tp_model' = r.model
          /\ tp_log' = Append(tp_log, r.log)
          /\ tp_exc' = r.exc
          /\ tp_pc' = IF r.exc = "none" THEN "loop" ELSE "aborted"
    /\ tp_i' = tp_i + 1
    /\ UNCHANGED tp_pretrained
    /\ UNCHANGED tp_frame

\* the loop has no layer left
TpEnd ==
    /\ tp_pc = "loop"
    /\ tp_i > Len(tp_pretrained)
    /\ tp_pc' = "done"
    /\ UNCHANGED <<tp_pretrained, tp_model, tp_i, tp_log, tp_exc>>
    /\ UNCHANGED tp_frame

TpNext == TpLayer \/ TpEnd

\* the pretrained layers the loop has dealt with so far
TpVisited == {i \in 2..Len(tp_pretrained) : i < tp_i}

\* pretrained layer i has a layer of its name and shapes in the training model
TpCompatible(i) ==
    /\ tp_pretrained[i].name \in DOMAIN tp_model
    /\ tp_model[tp_pretrained[i].name].shapes = tp_pretrained[i].shapes

\* C15: the transplant loop never aborts; when it ends it has visited every
\* pretrained layer but the first; a visited layer's weights are in the
\* training layer of its name iff that layer exists with the same shapes;
\* every other training layer has the weights it started with.
C15_TransplantSkipsMismatches ==
    /\ tp_exc = "none" /\ tp_pc # "aborted"
    /\ tp_pc = "done" => TpVisited = 2..Len(tp_pretrained)
    /\ Len(tp_log) = Cardinality(TpVisited)
    /\ \A i \in TpVisited :
          TpCompatible(i) <=>
              /\ tp_pretrained[i].name \in DOMAIN tp_model
              /\ tp_model[tp_pretrained[i].name].weights = PretrainedWeights(i)
    /\ \A n \in DOMAIN tp_model :
          (~\E i \in TpVisited : tp_pretrained[i].name = n /\ TpCompatible(i)) =>
              tp_model[n].weights = OwnWeights(n)

\* a finished transplant with a copied layer, a layer skipped for its shapes
\* and a training layer left alone that has the name of the first pretrained layer
C15_Witness ==
    /\ tp_pc = "done" /\ Len(tp_pretrained) = 3
    /\ \E i, j \in 2..3 : TpCompatible(i) /\ ~TpCompatible(j)
                          /\ tp_pretrained[j].name \in DOMAIN tp_model
    /\ tp_pretrained[1].name \in DOMAIN tp_model
    /\ TpCompatible(1)

\* ------------------------------------------------------------------------
\* COCOEvalCallback.on_epoch_end (cv/efficientdet/callback/eval_callback.py)
\* ------------------------------------------------------------------------
MaxEpochs == 4
MaxFreq == 3

\* the test of on_epoch_end taken on the epoch index as it is
should_evaluate_zero_based(epoch, start_eval_epoch, eval_freq) ==
    IF epoch < start_eval_epoch THEN [exc |-> "none", val |-> FALSE]
    ELSE IF eval_freq = 0 THEN [exc |-> "ZeroDivisionError", val |-> FALSE]
    ELSE [exc |-> "none", val |-> epoch % eval_freq = 0]

\* (epoch + 1) >= self.start_eval_epoch and (epoch + 1) % self.eval_freq == 0;
\* the modulo is only taken when the first test holds
should_evaluate(epoch, start_eval_epoch, eval_freq) ==
    IF epoch + 1 < start_eval_epoch THEN [exc |-> "none", val |-> FALSE]
    ELSE IF eval_freq = 0 THEN [exc |-> "ZeroDivisionError", val |-> FALSE]
    ELSE [exc |-> "none", val |-> (epoch + 1) % eval_freq = 0]

EvInit ==
    /\ ev_freq \in 0..MaxFreq
    /\ ev_start \in 0..(MaxEpochs + 1)
    /\ ev_first \in 0..MaxEpochs
    /\ ev_epoch = ev_first
    /\ ev_evals = <<>>
    /\ ev_exc = "none"

EvIdle ==
    /\ ev_freq = 1
    /\ ev_start = 0
    /\ ev_first = 0
    /\ ev_epoch = 0
    /\ ev_evals = <<>>
    /\ ev_exc = "none"

\* the trainer ends epoch ev_epoch and calls on_epoch_end(ev_epoch)
EvEpochEnd ==
    /\ ev_exc = "none"
    /\ ev_epoch < MaxEpochs
    /\ \E r \in {should_evaluate(ev_epoch, ev_start, ev_freq)} :
          /\ ev_exc' = r.exc
          /\ ev_evals' = IF r.val THEN Append(ev_evals, ev_epoch) ELSE ev_evals
    /\ ev_epoch' = ev_epoch + 1
    /\ UNCHANGED <<ev_freq, ev_start, ev_first>>
    /\ UNCHANGED ev_frame

\* how many times evaluate ran for epoch index e
EvCount(e) == Cardinality({i \in DOMAIN ev_evals : ev_evals[i] = e})

\* C16: with eval_freq >= 1, after any sequence of epoch-end events evaluate
\* has run exactly once for each ended epoch e with (e+1) >= start_eval_epoch
\* and (e+1) % eval_freq = 0, and not at all for any other epoch.
C16_EvalSchedule ==
    ev_freq >= 1 =>
        /\ ev_exc = "none"
        /\ \A e \in 0..MaxEpochs :
              EvCount(e) =
                 IF /\ e >= ev_first /\ e < ev_epoch
                    /\ e + 1 >= ev_start /\ (e + 1) % ev_freq = 0
                 THEN 1 ELSE 0

\* epochs 0..3 ended with start_eval_epoch 2 and eval_freq 2: evaluate ran for
\* epoch indexes 1 and 3 only
C16_Witness ==
    /\ ev_freq = 2 /\ ev_start = 2 /\ ev_first = 0 /\ ev_epoch = 4
    /\ ev_evals = <<1, 3>>

\* ------------------------------------------------------------------------
\* Detection inference entry point (cv/efficientdet/scripts/inference.py, main)
\* ------------------------------------------------------------------------
MaxPathLen == 3

\* a model path is a sequence of these pieces
PathLexemes == {"model", ".tlt", ".engine", ".eff", ".yaml"}
ModelPaths == SeqsUpTo(PathLexemes, MaxPathLen)

\* cfg.inference.label_map: not set, or a path made of the same pieces
LabelMapPaths == SeqsUpTo({"labels", ".yaml", ".txt"}, 2)

\* str.endswith
EndsWith(path, suffix) == path # <<>> /\ path[Len(path)] = suffix

\* main with the TensorRT path of line 130 still in use
inference_main_trt(model_path, label_map) ==
    LET loader == IF label_map = <<>> THEN <<>>
                  ELSE IF EndsWith(label_map, ".yaml") THEN <<"get_label_map">>
                  ELSE <<"get_label_dict">>
    IN IF EndsWith(model_path, ".engine")
       THEN [exc |-> "none", warned |-> TRUE, calls |-> loader \o <<"infer_trt">>,
             status |-> <<"STARTED", "SUCCESS">>]
       ELSE IF EndsWith(model_path, ".tlt")
       THEN [exc |-> "none", warned |-> FALSE, calls |-> loader \o <<"infer_tlt">>,
             status |-> <<"STARTED", "SUCCESS">>]
       ELSE [exc |-> "ValueError", warned |-> FALSE, calls |-> loader,
             status |-> <<"STARTED">>]

\* main(cfg): the label loader called, then the dispatch on model_path
inference_main(model_path, label_map) ==
    LET loader == IF label_map = <<>> THEN <<>>
                  ELSE IF EndsWith(label_map, ".yaml") THEN <<"get_label_map">>
                  ELSE <<"get_label_dict">>
    IN IF EndsWith(model_path, ".engine")
       THEN [exc |-> "none", warned |-> TRUE, calls |-> loader,
             status |-> <<"STARTED", "SUCCESS">>]
       ELSE IF EndsWith(model_path, ".tlt")
       THEN [exc |-> "none", warned |-> FALSE, calls |-> loader \o <<"infer_tlt">>,
             status |-> <<"STARTED", "SUCCESS">>]
       ELSE [exc |-> "ValueError", warned |-> FALSE, calls |-> loader,
             status |-> <<"STARTED">>]

InfInit ==
    /\ inf_path \in ModelPaths
    /\ inf_label_map \in LabelMapPaths
    /\ inf_ret = [exc |-> "none", warned |-> FALSE, calls |-> <<>>, status |-> <<>>]
    /\ inf_pc = "ready"

InfIdle ==
    /\ inf_path = <<>>
    /\ inf_label_map = <<>>
    /\ inf_ret = [exc |-> "none", warned |-> FALSE, calls |-> <<>>, status |-> <<>>]
    /\ inf_pc = "ready"

InfMain ==
    /\ inf_pc = "ready"
    /\ inf_ret' = inference_main(inf_path, inf_label_map)
    /\ inf_pc' = "done"
    /\ UNCHANGED <<inf_path, inf_label_map>>
    /\ UNCHANGED inf_frame

\* the inference paths main has run
InfRan == {inf_ret.calls[i] : i \in DOMAIN inf_ret.calls} \cap {"infer_tlt", "infer_trt"}

\* C17: a model path ending in '.engine' gets the warning and no inference;
\* one ending in '.tlt' runs infer_tlt; any other path fails with the
\* ValueError and runs no inference.
C17_InferenceDispatch ==
    inf_pc = "done" =>
        IF EndsWith(inf_path, ".engine")
        THEN inf_ret.exc = "none" /\ inf_ret.warned /\ InfRan = {}
        ELSE IF EndsWith(inf_path, ".tlt")
        THEN inf_ret.exc = "none" /\ ~inf_ret.warned /\ InfRan = {"infer_tlt"}
        ELSE inf_ret.exc = "ValueError" /\ ~inf_ret.warned /\ InfRan = {}

C17_Witness ==
    /\ inf_pc = "done" /\ inf_path = <<"model", ".tlt", ".engine">>
    /\ inf_ret.warned /\ inf_ret.calls = <<>>

\* ------------------------------------------------------------------------
\* Writes into the results directory by the ranks of a training run
\* (nvidia_tao_tf2/.../scripts/train.py, setup_env and run_experiment 100-102;
\*  nvidia_tao_tf2/.../utils/horovod_utils.py, get_rank and is_main_process)
\* ------------------------------------------------------------------------
NumRanks == 3

Ranks == 0..(NumRanks - 1)

\* get_rank() in the process of rank r: hvd.rank(), or 0 when it raises
\* because horovod is not initialized
get_rank(r, hvd_initialized) == IF hvd_initialized THEN r ELSE 0

is_main_process(r, hvd_initialized) == get_rank(r, hvd_initialized) = 0

WrInit ==
    /\ wr_dir_exists \in BOOLEAN
    /\ wr_hvd = [r \in Ranks |-> FALSE]
    /\ wr_writes = {}
    /\ wr_exc = [r \in Ranks |-> "none"]
    /\ wr_pc = [r \in Ranks |-> "main"]

WrIdle ==
    /\ wr_dir_exists = FALSE
    /\ wr_hvd = [r \in Ranks |-> FALSE]
    /\ wr_writes = {}
    /\ wr_exc = [r \in Ranks |-> "none"]
    /\ wr_pc = [r \in Ranks |-> "main"]

\* setup_env, line 34: hvd.init()
WrHvdInit(r) ==
    /\ wr_pc[r] = "main"
    /\ wr_hvd' = [wr_hvd EXCEPT ![r] = TRUE]
    /\ wr_pc' = [wr_pc EXCEPT ![r] = "setup_env"]
    /\ UNCHANGED <<wr_dir_exists, wr_writes, wr_exc>>
    /\ UNCHANGED wr_frame

\* setup_env, lines 38-41: the main process makes the results directory
WrSetupEnv(r) ==
    /\ wr_pc[r] = "setup_env"
    /\ IF is_main_process(r, wr_hvd[r]) /\ ~wr_dir_exists
       THEN /\ wr_dir_exists' = TRUE
            /\ wr_writes' = wr_writes \cup {[rank |-> r, path |-> "results_dir"]}
       ELSE UNCHANGED <<wr_dir_exists, wr_writes>>
    /\ wr_pc' = [wr_pc EXCEPT ![r] = "dump_train_graph"]
    /\ UNCHANGED <<wr_hvd, wr_exc>>
    /\ UNCHANGED wr_frame

\* dump_json(model, path) in rank r: opens the file for writing, which fails
\* when the directory is not there
WrDump(r, from, path, to) ==
    /\ wr_pc[r] = from
    /\ IF wr_dir_exists
       THEN /\ wr_writes' = wr_writes \cup {[rank |-> r, path |-> path]}
            /\ wr_pc' = [wr_pc EXCEPT ![r] = to]
            /\ UNCHANGED wr_exc
       ELSE /\ wr_exc' = [wr_exc EXCEPT ![r] = "FileNotFoundError"]
            /\ wr_pc' = [wr_pc EXCEPT ![r] = "failed"]
            /\ UNCHANGED wr_writes
    /\ UNCHANGED <<wr_dir_exists, wr_hvd>>
    /\ UNCHANGED wr_frame

\* run_experiment, line 101
WrDumpTrainGraph(r) == WrDump(r, "dump_train_graph", "train_graph.json", "dump_eval_graph")

\* run_experiment, line 102
WrDumpEvalGraph(r) == WrDump(r, "dump_eval_graph", "eval_graph.json", "dumped")

WrNext ==
    \E r \in Ranks :
        \/ WrHvdInit(r)
        \/ WrSetupEnv(r)
        \/ WrDumpTrainGraph(r)
        \/ WrDumpEvalGraph(r)

\* C18: only rank 0 writes under the results directory (making it, writing
\* train_graph.json and eval_graph.json), so no path has two writers.
C18_OnlyMainProcessWrites ==
    /\ \A w \in wr_writes : w.rank = 0
    /\ \A w1, w2 \in wr_writes : w1.path = w2.path => w1.rank = w2.rank

\* the part that is gated: only rank 0 makes the results directory
C18_OnlyMainProcessMakesDir ==
    \A w \in wr_writes : w.path = "results_dir" => w.rank = 0

\* ------------------------------------------------------------------------
\* COCOEvalCallback.evaluate under rank-parallel training
\* (cv/efficientdet/callback/eval_callback.py, 67-125)
\* ------------------------------------------------------------------------
MaxEvals == 2

\* a barrier that lets a rank through at once
barrier_open_nowait(r, entered) == TRUE

\* MPI.COMM_WORLD.Barrier() lets rank r go when every rank has entered the
\* barrier as many times as r has
barrier_open(r, entered) == \A q \in Ranks : entered[q] >= entered[r]

BarInit ==
    /\ bar_started = [r \in Ranks |-> 0]
    /\ bar_loops = [r \in Ranks |-> 0]
    /\ bar_gathered = [r \in Ranks |-> 0]
    /\ bar_entered = [r \in Ranks |-> 0]
    /\ bar_passed = [r \in Ranks |-> 0]
    /\ bar_metrics = <<>>
    /\ bar_pc = [r \in Ranks |-> "training"]

BarIdle ==
    /\ bar_started = <<>>
    /\ bar_loops = <<>>
    /\ bar_gathered = <<>>
    /\ bar_entered = <<>>
    /\ bar_passed = <<>>
    /\ bar_metrics = <<>>
    /\ bar_pc = <<>>

\* on_epoch_end calls evaluate (every rank does, for the same epochs)
BarEvaluate(r) ==
    /\ bar_pc[r] = "training"
    /\ bar_started[r] < MaxEvals
    /\ bar_started' = [bar_started EXCEPT ![r] = @ + 1]
    /\ bar_pc' = [bar_pc EXCEPT ![r] = "eval_loop"]
    /\ UNCHANGED <<bar_loops, bar_gathered, bar_entered, bar_passed, bar_metrics>>
    /\ UNCHANGED bar_frame

\* lines 68-103: the rank has run the evaluation loop over its shard
BarLoop(r) ==
    /\ bar_pc[r] = "eval_loop"
    /\ bar_loops' = [bar_loops EXCEPT ![r] = @ + 1]
    /\ bar_pc' = [bar_pc EXCEPT ![r] = "gather"]
    /\ UNCHANGED <<bar_started, bar_gathered, bar_entered, bar_passed, bar_metrics>>
    /\ UNCHANGED bar_frame

\* line 106, self.evaluator.gather(): a rank hands in its detections; on the
\* main process the call returns when every rank has handed in its own
BarGather(r) ==
    /\ bar_pc[r] = "gather"
    /\ is_main_process(r, TRUE) =>
          \A q \in Ranks \ {r} : bar_gathered[q] > bar_gathered[r]
    /\ bar_gathered' = [bar_gathered EXCEPT ![r] = @ + 1]
    /\ bar_pc' = [bar_pc EXCEPT ![r] =
                    IF is_main_process(r, TRUE) THEN "result" ELSE "barrier"]
    /\ UNCHANGED <<bar_started, bar_loops, bar_entered, bar_passed, bar_metrics>>
    /\ UNCHANGED bar_frame

\* lines 109-120: the main process computes the final metrics
BarResult(r) ==
    /\ bar_pc[r] = "result"
    /\ bar_metrics' = Append(bar_metrics,
                             [evaluation |-> bar_started[r],
                              gathered |-> bar_gathered])
    /\ bar_pc' = [bar_pc EXCEPT ![r] = "barrier"]
    /\ UNCHANGED <<bar_started, bar_loops, bar_gathered, bar_entered, bar_passed>>
    /\ UNCHANGED bar_frame

\* line 125: the rank enters the barrier
BarEnter(r) ==
    /\ bar_pc[r] = "barrier"
    /\ bar_entered' = [bar_entered EXCEPT ![r] = @ + 1]
    /\ bar_pc' = [bar_pc EXCEPT ![r] = "in_barrier"]
    /\ UNCHANGED <<bar_started, bar_loops, bar_gathered, bar_passed, bar_metrics>>
    /\ UNCHANGED bar_frame

\* line 125: the barrier lets the rank go, evaluate returns
BarLeave(r) ==
    /\ bar_pc[r] = "in_barrier"
    /\ barrier_open(r, bar_entered)
    /\ bar_passed' = [bar_passed EXCEPT ![r] = @ + 1]
    /\ bar_pc' = [bar_pc EXCEPT ![r] = "training"]
    /\ UNCHANGED <<bar_started, bar_loops, bar_gathered, bar_entered, bar_metrics>>
    /\ UNCHANGED bar_frame

BarNext ==
    \E r \in Ranks :
        \/ BarEvaluate(r)
        \/ BarLoop(r)
        \/ BarGather(r)
        \/ BarResult(r)
        \/ BarEnter(r)
        \/ BarLeave(r)

\* C19: a rank that has returned from its k-th evaluate finds that every rank
\* has finished the loop and the gather of its k-th evaluate; the main process
\* computes the metrics of an evaluation when every rank has gathered for it;
\* a rank has passed the barrier once for each evaluate it has returned from.
C19_BarrierSynchronizes ==
    /\ \A r, q \in Ranks :
          /\ bar_passed[r] <= bar_loops[q]
          /\ bar_passed[r] <= bar_gathered[q]
    /\ \A i \in DOMAIN bar_metrics :
          \A q \in Ranks : bar_metrics[i].gathered[q] >= bar_metrics[i].evaluation
    /\ \A r \in Ranks :
          /\ bar_pc[r] = "training" => bar_passed[r] = bar_started[r]
          /\ bar_pc[r] # "training" => bar_passed[r] = bar_started[r] - 1
          /\ bar_entered[r] = IF bar_pc[r] = "in_barrier" THEN bar_passed[r] + 1
                              ELSE bar_passed[r]

\* a rank waits in the barrier of its first evaluate while another rank is
\* still in its evaluation loop
C19_Witness ==
    \E r, q \in Ranks :
        /\ bar_pc[r] = "in_barrier" /\ bar_entered[r] = 1
        /\ bar_pc[q] = "eval_loop" /\ bar_started[q] = 1

\* ------------------------------------------------------------------------
\* Resuming in run_experiment (nvidia_tao_tf2/.../scripts/train.py, 178-216;
\* the resume container is written by EffCheckpoint.on_epoch_end)
\* ------------------------------------------------------------------------
MaxTotalEpochs == 3
MaxRuns == 3

\* no resume container in the results directory
NoResume == <<>>

\* a test that also trains when the resumed epoch equals the total
should_fit_inclusive(train_from_epoch, num_epochs) == train_from_epoch <= num_epochs

\* line 192: train_from_epoch < config.num_epochs
should_fit(train_from_epoch, num_epochs) == train_from_epoch < num_epochs

\* lines 179-189: 0, or the epoch restored from the resume container
restored_epoch(resume) == IF resume = NoResume THEN 0 ELSE resume[1]

\* the record of one invocation of run_experiment
NewRun(from) == [from |-> from, callbacks |-> FALSE, trained |-> <<>>, returned |-> FALSE]

RsInit ==
    /\ rs_num_epochs \in 0..MaxTotalEpochs
    /\ rs_resume \in {NoResume} \cup {<<e>> : e \in 0..(MaxTotalEpochs + 1)}
    /\ rs_runs = <<>>
    /\ rs_epoch = 0
    /\ rs_pc = "idle"

RsIdle ==
    /\ rs_num_epochs = 0
    /\ rs_resume = NoResume
    /\ rs_runs = <<>>
    /\ rs_epoch = 0
    /\ rs_pc = "idle"

\* run_experiment is called and reaches line 192 with the resumed epoch
RsRestore ==
    /\ rs_pc = "idle"
    /\ Len(rs_runs) < MaxRuns
    /\ rs_runs' = Append(rs_runs, NewRun(restored_epoch(rs_resume)))
    /\ rs_epoch' = restored_epoch(rs_resume)
    /\ rs_pc' = "restored"
    /\ UNCHANGED <<rs_num_epochs, rs_resume>>
    /\ UNCHANGED rs_frame

\* lines 192-205: callbacks and trainer are set up and fit is entered
RsSetUpFit ==
    /\ rs_pc = "restored"
    /\ should_fit(rs_epoch, rs_num_epochs)
    /\ rs_runs' = [rs_runs EXCEPT ![Len(rs_runs)].callbacks = TRUE]
    /\ rs_pc' = "fit"
    /\ UNCHANGED <<rs_num_epochs, rs_resume, rs_epoch>>
    /\ UNCHANGED rs_frame

\* lines 214-216: nothing left to train, the call returns
RsFinished ==
    /\ rs_pc = "restored"
    /\ ~should_fit(rs_epoch, rs_num_epochs)
    /\ rs_runs' = [rs_runs EXCEPT ![Len(rs_runs)].returned = TRUE]
    /\ rs_pc' = "idle"
    /\ UNCHANGED <<rs_num_epochs, rs_resume, rs_epoch>>
    /\ UNCHANGED rs_frame

\* fit trains epoch rs_epoch; at its end the checkpoint callback writes the
\* resume container with the 1-based epoch when its save condition holds
RsFitEpoch ==
    /\ rs_pc = "fit"
    /\ rs_epoch < rs_num_epochs
    /\ rs_runs' = [rs_runs EXCEPT ![Len(rs_runs)].trained = Append(@, rs_epoch)]
    /\ rs_epoch' = rs_epoch + 1
    /\ \E saved \in BOOLEAN :
          rs_resume' = IF saved THEN <<rs_epoch + 1>> ELSE rs_resume
    /\ UNCHANGED <<rs_num_epochs, rs_pc>>
    /\ UNCHANGED rs_frame

\* fit has trained the last epoch, the call returns
RsFitEnd ==
    /\ rs_pc = "fit"
    /\ rs_epoch >= rs_num_epochs
    /\ rs_runs' = [rs_runs EXCEPT ![Len(rs_runs)].returned = TRUE]
    /\ rs_pc' = "idle"
    /\ UNCHANGED <<rs_num_epochs, rs_resume, rs_epoch>>
    /\ UNCHANGED rs_frame

\* the process is stopped in the middle of fit
RsInterrupt ==
    /\ rs_pc = "fit"
    /\ rs_epoch < rs_num_epochs
    /\ rs_pc' = "idle"
    /\ UNCHANGED <<rs_num_epochs, rs_resume, rs_epoch, rs_runs>>
    /\ UNCHANGED rs_frame

RsNext ==
    \/ RsRestore \/ RsSetUpFit \/ RsFinished
    \/ RsFitEpoch \/ RsFitEnd \/ RsInterrupt

\* the invocations that have come to the test of line 192 and acted on it
RsDecided == {i \in DOMAIN rs_runs : i < Len(rs_runs) \/ rs_pc \in {"fit", "idle"}}

\* C20: an invocation sets up callbacks and runs fit iff the resumed epoch
\* (0 without a resume container) is below num_epochs, and then trains the
\* epochs from the resumed one on, in order; otherwise it sets up no
\* callbacks, trains nothing and returns normally.
C20_FitIffEpochsLeft ==
    \A i \in RsDecided :
        LET run == rs_runs[i]
        IN /\ run.callbacks <=> run.from < rs_num_epochs
           /\ \A k \in DOMAIN run.trained : run.trained[k] = run.from + k - 1
           /\ run.from >= rs_num_epochs => (run.trained = <<>> /\ run.returned)
           /\ (run.returned /\ run.callbacks) =>
                 run.from + Len(run.trained) = rs_num_epochs

\* a run trained up to the last epoch and saved it, and the next invocation
\* trained nothing
C20_Witness ==
    /\ Len(rs_runs) = 2 /\ rs_pc = "idle" /\ rs_num_epochs = 2
    /\ rs_runs[1].from = 1 /\ rs_runs[1].trained = <<1>> /\ rs_runs[1].returned
    /\ rs_runs[2].from = 2 /\ rs_runs[2].trained = <<>> /\ rs_runs[2].returned
    /\ ~rs_runs[2].callbacks

\* ------------------------------------------------------------------------
\* EffCheckpoint.on_epoch_end (cv/efficientdet/callback/eff_checkpoint.py)
\* ------------------------------------------------------------------------
MaxPeriod == 3
MaxCkCalls == 3

\* the epoch indexes a fit loop may start at (a resumed run starts later)
CkFirstEpochs == {0, 8, 98, 998}

\* save_freq: 'epoch', or a number of batches
CkSaveFreqs == {"epoch", "batches"}

DigitChars == <<"0", "1", "2", "3", "4", "5", "6", "7", "8", "9">>

RECURSIVE DecimalDigits(_)
\* the decimal digits of n >= 0, as characters
DecimalDigits(n) ==
    IF n < 10 THEN <<DigitChars[n + 1]>>
    ELSE Append(DecimalDigits(n \div 10), DigitChars[(n % 10) + 1])

RECURSIVE ZeroPad(_, _)
\* left-padding with zeros to a width
ZeroPad(s, width) == IF Len(s) >= width THEN s ELSE ZeroPad(<<"0">> \o s, width)

\* f'{epoch:03d}'
format_03d(epoch) == ZeroPad(DecimalDigits(epoch), 3)

\* the epoch number taken as the index itself
eff_epoch_zero_based(epoch) == epoch

\* line 50: epoch += 1
eff_epoch(epoch) == epoch + 1

\* lines 56-59: the name of the artifact
eff_filename(model_name, graph_only, epoch) ==
    IF graph_only THEN <<model_name, ".resume">>
    ELSE <<model_name, "_">> \o format_03d(epoch) \o <<".eff">>

CkInit ==
    /\ ck_period \in 1..MaxPeriod
    /\ ck_save_freq \in CkSaveFreqs
    /\ ck_graph_only \in BOOLEAN
    /\ ck_first \in CkFirstEpochs
    /\ ck_calls = 0
    /\ ck_since = 0
    /\ ck_tmp = {}
    /\ ck_log = <<>>

CkIdle ==
    /\ ck_period = 1
    /\ ck_save_freq = "epoch"
    /\ ck_graph_only = FALSE
    /\ ck_first = 0
    /\ ck_calls = 0
    /\ ck_since = 0
    /\ ck_tmp = {}
    /\ ck_log = <<>>

\* on_epoch_end(epoch) for the next epoch of the fit loop: the temporary
\* directory is made in every call; the save, the encoding and the removal of
\* the directory and of the staging zip file are under the save condition
CkEpochEnd ==
    /\ ck_calls < MaxCkCalls
    /\ LET epoch == ck_first + ck_calls
           since == ck_since + 1
           tmpdir == <<"tmpdir", ck_calls + 1>>
           zip == <<"temp_zip_file", ck_calls + 1>>
           due == ck_save_freq = "epoch" /\ since >= ck_period
       IN /\ ck_since' = IF due THEN 0 ELSE since
          /\ ck_tmp' = IF due THEN ((ck_tmp \cup {tmpdir, zip}) \ {tmpdir, zip})
                       ELSE ck_tmp \cup {tmpdir}
          /\ ck_log' = Append(ck_log,
                [epoch |-> epoch, since |-> since, saved |-> due,
                 name |-> IF due THEN eff_filename("efficientdet-d0", ck_graph_only,
                                                   eff_epoch(epoch))
                          ELSE <<>>])
    /\ ck_calls' = ck_calls + 1
    /\ UNCHANGED <<ck_period, ck_save_freq, ck_graph_only, ck_first>>
    /\ UNCHANGED ck_frame

\* C21: after every on_epoch_end call, saving or not, no temporary directory
\* and no staging file of the callback is left.
C21_NoTempLeftovers == ck_tmp = {}

\* the same after the calls that save (this part holds)
C21_NoTempLeftoversOfSaves ==
    \A i \in DOMAIN ck_log :
        ck_log[i].saved => (<<"tmpdir", i>> \notin ck_tmp /\ <<"temp_zip_file", i>> \notin ck_tmp)

\* the number a sequence of digit characters stands for
RECURSIVE DigitsValue(_)
DigitsValue(s) ==
    IF s = <<>> THEN 0
    ELSE 10 * DigitsValue(SubSeq(s, 1, Len(s) - 1))
         + (CHOOSE d \in 0..9 : DigitChars[d + 1] = s[Len(s)])

MaxDirDepth == 10

\* max_path = 8
max_path == 8

\* the directory names of a path; a name is a sequence of pieces
DirNamePieces == {<<"ai_infra">>, <<"my_", "ai_infra">>, <<"a">>}

\* os.path.split(prefix)[0] on an absolute path given by its directory names;
\* the root is its own parent
split_head(prefix) == IF prefix = <<>> THEN <<>> ELSE SubSeq(prefix, 1, Len(prefix) - 1)

\* prefix.endswith('ai_infra'): a test on the characters of the path
endswith_ai_infra(prefix) ==
    prefix # <<>> /\ prefix[Len(prefix)][Len(prefix[Len(prefix)])] = "ai_infra"

RECURSIVE remove_prefix_loop(_, _, _)
\* the while loop, with max_path steps left: the returned path and the steps taken
remove_prefix_loop(dir_path, prefix, left) ==
    IF left <= 0 THEN [ret |-> dir_path, steps |-> max_path - left]
    ELSE LET p == split_head(prefix)
         IN IF endswith_ai_infra(p)
            THEN [ret |-> SubSeq(dir_path, Len(p) + 1, Len(dir_path)),
                  steps |-> max_path - left + 1]
            ELSE remove_prefix_loop(dir_path, p, left - 1)

remove_prefix(dir_path) == remove_prefix_loop(dir_path, dir_path, max_path)

RpInit ==
    /\ \E n \in 0..MaxDirDepth : rp_path \in [1..n -> DirNamePieces]
    /\ rp_ret = [ret |-> <<>>, steps |-> 0]
    /\ rp_pc = "ready"

RpIdle ==
    /\ rp_path = <<>>
    /\ rp_ret = [ret |-> <<>>, steps |-> 0]
    /\ rp_pc = "ready"

RpCall ==
    /\ rp_pc = "ready"
    /\ rp_ret' = remove_prefix(rp_path)
    /\ rp_pc' = "done"
    /\ UNCHANGED rp_path
    /\ UNCHANGED rp_frame

\* the numbers k of levels up, at most 8, at which the path has an ancestor
\* directory named ai_infra
RpMarkerLevels ==
    {k \in 1..max_path : k < Len(rp_path) /\ rp_path[Len(rp_path) - k] = <<"ai_infra">>}

\* C23: when a directory named ai_infra is an ancestor of the path within 8
\* levels up, the result is the part of the path after it; when none is, the
\* result is the path itself; the walk takes at most 8 steps.
C23_RemovePrefix ==
    rp_pc = "done" =>
        /\ rp_ret.steps <= max_path
        /\ IF RpMarkerLevels # {}
           THEN \E k \in RpMarkerLevels :
                   rp_ret.ret = SubSeq(rp_path, Len(rp_path) - k + 1, Len(rp_path))
           ELSE rp_ret.ret = rp_path

\* the same for paths in which only the directory ai_infra has a name that
\* ends in ai_infra (this part holds)
C23_RemovePrefixExactNames ==
    (rp_pc = "done" /\ \A i \in DOMAIN rp_path : rp_path[i] # <<"my_", "ai_infra">>) =>
        /\ rp_ret.steps <= max_path
        /\ IF RpMarkerLevels # {}
           THEN \E k \in RpMarkerLevels :
                   rp_ret.ret = SubSeq(rp_path, Len(rp_path) - k + 1, Len(rp_path))
           ELSE rp_ret.ret = rp_path

\* ------------------------------------------------------------------------
\* COCOEvalCallback.evaluate: moving-average weight swaps
\* (cv/efficientdet/callback/eval_callback.py, 67-125)
\* ------------------------------------------------------------------------
MaxWeight == 2
MaxEmaCalls == 2

\* the values a set of weights can have
EmaWeights == 0..MaxWeight

\* train_config.moving_average_decay, in tenths
EmaDecays == {0, 9}

\* self.eval_params['train_config']['moving_average_decay'] > 0
moving_average_enabled(decay) == decay > 0

\* a swap that overwrites the model without keeping its weights
swap_weights_overwrite(w) == [model |-> w.avg, avg |-> w.avg]

\* ema_opt.swap_weights(): exchanges the model's variables and their averages
swap_weights(w) == [model |-> w.avg, avg |-> w.model]

EmaInit ==
    /\ ema_decay \in EmaDecays
    /\ ema_w \in [model : EmaWeights, avg : EmaWeights]
    /\ ema_eval = <<>>
    /\ ema_before = ema_w
    /\ ema_swaps = 0
    /\ ema_calls = 0
    /\ ema_pc = "train"

EmaIdle ==
    /\ ema_decay = 0
    /\ ema_w = [model |-> 0, avg |-> 0]
    /\ ema_eval = <<>>
    /\ ema_before = ema_w
    /\ ema_swaps = 0
    /\ ema_calls = 0
    /\ ema_pc = "train"

\* one training step of fit between two callbacks: new live weights and,
\* with moving-average tracking, new averages
EmaTrainStep ==
    /\ ema_pc = "train"
    /\ \E m \in EmaWeights, a \in EmaWeights :
          /\ (~moving_average_enabled(ema_decay)) => a = ema_w.avg
          /\ ema_w' = [model |-> m, avg |-> a]
    /\ UNCHANGED <<ema_decay, ema_eval, ema_before, ema_swaps, ema_calls, ema_pc>>
    /\ UNCHANGED ema_frame

\* lines 68-69: evaluate is entered, swap_weights gets the average weights
EmaSwapIn ==
    /\ ema_pc = "train"
    /\ ema_calls < MaxEmaCalls
    /\ ema_calls' = ema_calls + 1
    /\ ema_before' = ema_w
    /\ IF moving_average_enabled(ema_decay)
       THEN ema_w' = swap_weights(ema_w) /\ ema_swaps' = 1
       ELSE ema_w' = ema_w /\ ema_swaps' = 0
    /\ ema_pc' = "entered"
    /\ UNCHANGED <<ema_decay, ema_eval>>
    /\ UNCHANGED ema_frame

\* line 70: self.eval_model.set_weights(self.model.get_weights())
EmaSetWeights ==
    /\ ema_pc = "entered"
    /\ ema_eval' = <<ema_w.model>>
    /\ ema_pc' = "copied"
    /\ UNCHANGED <<ema_decay, ema_w, ema_before, ema_swaps, ema_calls>>
    /\ UNCHANGED ema_frame

\* lines 71-120: the evaluation loop, gather and the metrics; an exception
\* leaves evaluate and ends fit
EmaRun ==
    /\ ema_pc = "copied"
    /\ ema_pc' \in {"ran", "raised"}
    /\ UNCHANGED <<ema_decay, ema_w, ema_eval, ema_before, ema_swaps, ema_calls>>
    /\ UNCHANGED ema_frame

\* lines 122-125: swap_weights gets the base weights back, barrier, return
EmaSwapOut ==
    /\ ema_pc = "ran"
    /\ IF moving_average_enabled(ema_decay)
       THEN ema_w' = swap_weights(ema_w) /\ ema_swaps' = ema_swaps + 1
       ELSE ema_w' = ema_w /\ ema_swaps' = ema_swaps
    /\ ema_pc' = "train"
    /\ UNCHANGED <<ema_decay, ema_eval, ema_before, ema_calls>>
    /\ UNCHANGED ema_frame

EmaNext ==
    \/ EmaTrainStep
    \/ EmaSwapIn
    \/ EmaSetWeights
    \/ EmaRun
    \/ EmaSwapOut

\* C24: an evaluate call that returns has swapped the weights twice with
\* moving-average tracking and not at all without it; the training model then
\* holds the live weights it held before the call, and the inference model got
\* the moving averages (the live weights without tracking). No training step
\* runs while the averages are swapped in.
C24_EmaSwappedTwice ==
    [][ /\ (ema_pc = "ran" /\ ema_pc' = "train") =>
              /\ ema_w'.model = ema_before.model
              /\ ema_w'.avg = ema_before.avg
              /\ IF moving_average_enabled(ema_decay)
                 THEN ema_swaps' = 2 /\ ema_eval' = <<ema_before.avg>>
                 ELSE ema_swaps' = 0 /\ ema_eval' = <<ema_before.model>>
        /\ EmaTrainStep => (ema_swaps % 2 = 0)
      ]_vars

\* a second evaluate call has returned with tracking on, the averages and the
\* live weights being different
C24_Witness ==
    /\ ema_pc = "train"
    /\ ema_calls = 2
    /\ ema_swaps = 2
    /\ moving_average_enabled(ema_decay)
    /\ ema_eval = <<ema_w.avg>>
    /\ ema_w.avg # ema_w.model

\* ------------------------------------------------------------------------
\* Status records of the detection inference entry point
\* (cv/efficientdet/scripts/inference.py, main 104-138); status.json is opened
\* with append=True, so the records of successive invocations follow each other
\* ------------------------------------------------------------------------
MaxInvocations == 2

\* cfg.inference.model_path and cfg.inference.label_map of an invocation
StModelPaths == {p \in ModelPaths : Len(p) = 2 /\ p[1] = "model"}
StLabelMaps == {<<>>, <<"labels", ".yaml">>, <<"labels", ".txt">>}

\* the SUCCESS record is written also when main has raised
success_due_always(pc) == pc \in {"dispatched", "raised"}

\* lines 135-138 are reached: the dispatch of lines 128-134 has returned
success_due(pc) == pc = "dispatched"

StInit ==
    /\ st_inv = 0
    /\ st_path \in StModelPaths
    /\ st_label \in StLabelMaps
    /\ st_trace = <<>>
    /\ st_pc = "idle"

StIdle ==
    /\ st_inv = 0
    /\ st_path = <<>>
    /\ st_label = <<>>
    /\ st_trace = <<>>
    /\ st_pc = "idle"

\* lines 107-120: main is entered, the logger is set up and STARTED is written
StStarted ==
    /\ st_pc = "idle"
    /\ st_inv < MaxInvocations
    /\ st_inv' = st_inv + 1
    /\ st_trace' = Append(st_trace, <<st_inv + 1, "STARTED">>)
    /\ st_pc' = "started"
    /\ UNCHANGED <<st_path, st_label>>
    /\ UNCHANGED st_frame

\* lines 121-126: the label map is loaded, or the loader raises
StLoadLabels ==
    /\ st_pc = "started"
    /\ IF st_label = <<>>
       THEN st_trace' = st_trace /\ st_pc' = "loaded"
       ELSE LET loader == IF EndsWith(st_label, ".yaml") THEN "get_label_map"
                          ELSE "get_label_dict"
            IN \/ /\ st_trace' = Append(st_trace, <<st_inv, loader>>)
                  /\ st_pc' = "loaded"
               \/ /\ st_trace' = st_trace \o <<<<st_inv, loader>>, <<st_inv, "raise">>>>
                  /\ st_pc' = "raised"
    /\ UNCHANGED <<st_inv, st_path, st_label>>
    /\ UNCHANGED st_frame

\* lines 128-134: the dispatch on model_path
StDispatch ==
    /\ st_pc = "loaded"
    /\ IF EndsWith(st_path, ".engine")
       THEN st_trace' = Append(st_trace, <<st_inv, "warn">>) /\ st_pc' = "dispatched"
       ELSE IF EndsWith(st_path, ".tlt")
       THEN \/ /\ st_trace' = Append(st_trace, <<st_inv, "infer_tlt">>)
               /\ st_pc' = "dispatched"
            \/ /\ st_trace' = st_trace \o <<<<st_inv, "infer_tlt">>, <<st_inv, "raise">>>>
               /\ st_pc' = "raised"
       ELSE st_trace' = Append(st_trace, <<st_inv, "raise">>) /\ st_pc' = "raised"
    /\ UNCHANGED <<st_inv, st_path, st_label>>
    /\ UNCHANGED st_frame

\* lines 135-138: SUCCESS is written and main returns
StSuccess ==
    /\ success_due(st_pc)
    /\ st_trace' = Append(st_trace, <<st_inv, "SUCCESS">>)
    /\ st_pc' = "exit"
    /\ UNCHANGED <<st_inv, st_path, st_label>>
    /\ UNCHANGED st_frame

\* the process ends, by return or by the exception; the next invocation has
\* its own configuration
StExit ==
    /\ st_pc \in {"exit", "raised"}
    /\ st_pc' = "idle"
    /\ st_path' \in StModelPaths
    /\ st_label' \in StLabelMaps
    /\ UNCHANGED <<st_inv, st_trace>>
    /\ UNCHANGED st_frame

StNext ==
    \/ StStarted
    \/ StLoadLabels
    \/ StDispatch
    \/ StSuccess
    \/ StExit

\* the positions of the trace at which invocation n did ev
StAt(n, ev) == {i \in DOMAIN st_trace : st_trace[i] = <<n, ev>>}

\* C25: of every invocation, the STARTED record is written before any label
\* loading or dispatch; a SUCCESS record comes after the STARTED record and the
\* dispatch of the same invocation; an invocation that raised has no SUCCESS
\* record.
C25_StatusOrder ==
    \A n \in 1..st_inv :
        /\ \A i \in DOMAIN st_trace :
              (st_trace[i][1] = n /\ st_trace[i][2] # "STARTED") =>
                  \E j \in StAt(n, "STARTED") : j < i
        /\ \A i \in StAt(n, "SUCCESS") :
              \E j \in StAt(n, "warn") \cup StAt(n, "infer_tlt") : j < i
        /\ StAt(n, "raise") # {} => StAt(n, "SUCCESS") = {}
        /\ (st_pc = "idle" /\ StAt(n, "raise") = {}) => StAt(n, "SUCCESS") # {}

\* a first invocation failed inside infer_tlt, a second one succeeded
C25_Witness ==
    st_trace = <<<<1, "STARTED">>, <<1, "infer_tlt">>, <<1, "raise">>,
                 <<2, "STARTED">>, <<2, "get_label_dict">>, <<2, "infer_tlt">>,
                 <<2, "SUCCESS">>>>

\* ------------------------------------------------------------------------
\* run_experiment: pretrained-weight loading and checkpoint resume
\* (nvidia_tao_tf2/.../scripts/train.py, 104-139 and 178-190)
\* ------------------------------------------------------------------------
MaxLaunches == 2

\* cfg.train.checkpoint: not set, a directory, or a .tlt container
PlCheckpoints == {<<>>, <<"ckpt">>, <<"ckpt", ".tlt">>}

\* lines 107-110: the decoded directory of a .tlt container, else the value
pretrained_ckpt_path(checkpoint) ==
    IF EndsWith(checkpoint, ".tlt") THEN <<"decoded">> ELSE checkpoint

\* the test of line 111 without `not os.path.exists(resume_ckpt_path)`
load_pretrained_due_any(checkpoint, resume_exists, r) ==
    pretrained_ckpt_path(checkpoint) # <<>> /\ is_main_process(r, TRUE)

\* line 111
load_pretrained_due(checkpoint, resume_exists, r) ==
    /\ pretrained_ckpt_path(checkpoint) # <<>>
    /\ ~resume_exists
    /\ is_main_process(r, TRUE)

PlInit ==
    /\ pl_checkpoint \in PlCheckpoints
    /\ pl_pruned \in BOOLEAN
    /\ pl_resume \in BOOLEAN
    /\ pl_had_resume = pl_resume
    /\ pl_launches = 1
    /\ pl_did = [r \in Ranks |-> <<>>]
    /\ pl_pc = [r \in Ranks |-> "start"]

PlIdle ==
    /\ pl_checkpoint = <<>>
    /\ pl_pruned = FALSE
    /\ pl_resume = FALSE
    /\ pl_had_resume = FALSE
    /\ pl_launches = 1
    /\ pl_did = <<>>
    /\ pl_pc = <<>>

\* lines 104-139: the pretrained weights are loaded when line 111 and line 112
\* say so
PlLoadPretrained(r) ==
    /\ pl_pc[r] = "start"
    /\ pl_did' = [pl_did EXCEPT ![r] =
          IF load_pretrained_due(pl_checkpoint, pl_resume, r) /\ ~pl_pruned
          THEN Append(@, "pretrained") ELSE @]
    /\ pl_pc' = [pl_pc EXCEPT ![r] = "loaded"]
    /\ UNCHANGED <<pl_checkpoint, pl_pruned, pl_resume, pl_had_resume, pl_launches>>
    /\ UNCHANGED pl_frame

\* lines 141-176: model.compile
PlCompile(r) ==
    /\ pl_pc[r] = "loaded"
    /\ pl_did' = [pl_did EXCEPT ![r] = Append(@, "compile")]
    /\ pl_pc' = [pl_pc EXCEPT ![r] = "compiled"]
    /\ UNCHANGED <<pl_checkpoint, pl_pruned, pl_resume, pl_had_resume, pl_launches>>
    /\ UNCHANGED pl_frame

\* lines 178-190: the resume container is restored when it exists
PlRestore(r) ==
    /\ pl_pc[r] = "compiled"
    /\ pl_did' = [pl_did EXCEPT ![r] = IF pl_resume THEN Append(@, "resume") ELSE @]
    /\ pl_pc' = [pl_pc EXCEPT ![r] = "restored"]
    /\ UNCHANGED <<pl_checkpoint, pl_pruned, pl_resume, pl_had_resume, pl_launches>>
    /\ UNCHANGED pl_frame

\* lines 192-216: fit, in which the checkpoint callback of the main process
\* may write the resume container, or nothing left to train
PlFit(r) ==
    /\ pl_pc[r] = "restored"
    /\ pl_pc' = [pl_pc EXCEPT ![r] = "done"]
    /\ \/ pl_resume' = pl_resume
       \/ is_main_process(r, TRUE) /\ pl_resume' = TRUE
    /\ UNCHANGED <<pl_checkpoint, pl_pruned, pl_had_resume, pl_launches, pl_did>>
    /\ UNCHANGED pl_frame

\* the training command is run again on the same results directory
PlLaunch ==
    /\ \A r \in Ranks : pl_pc[r] = "done"
    /\ pl_launches < MaxLaunches
    /\ pl_launches' = pl_launches + 1
    /\ pl_had_resume' = pl_resume
    /\ pl_did' = [r \in Ranks |-> <<>>]
    /\ pl_pc' = [r \in Ranks |-> "start"]
    /\ UNCHANGED <<pl_checkpoint, pl_pruned, pl_resume>>
    /\ UNCHANGED pl_frame

PlNext ==
    \/ \E r \in Ranks : PlLoadPretrained(r)
    \/ \E r \in Ranks : PlCompile(r)
    \/ \E r \in Ranks : PlRestore(r)
    \/ \E r \in Ranks : PlFit(r)
    \/ PlLaunch

PlDone(r, ev) == \E i \in DOMAIN pl_did[r] : pl_did[r][i] = ev

\* C26: a process loads pretrained weights only if a checkpoint source is
\* configured, no resume container exists and it is rank 0; when the resume
\* container exists, the process skips the pretrained loading and restores the
\* resume container after compiling; no process does both in one invocation.
C26_PretrainedOrResume ==
    \A r \in Ranks :
        /\ PlDone(r, "pretrained") =>
              /\ pl_checkpoint # <<>>
              /\ ~pl_had_resume
              /\ r = 0
        /\ (pl_had_resume /\ pl_pc[r] \in {"restored", "done"}) =>
              pl_did[r] = <<"compile", "resume">>
        /\ ~(PlDone(r, "pretrained") /\ PlDone(r, "resume"))

\* in a second invocation, with a checkpoint configured, rank 0 has restored
\* the resume container written by the first and loaded no pretrained weights
C26_Witness ==
    /\ pl_launches = 2
    /\ pl_checkpoint = <<"ckpt", ".tlt">>
    /\ ~pl_pruned
    /\ pl_had_resume
    /\ pl_pc[0] = "restored"
    /\ pl_did[0] = <<"compile", "resume">>

\* ------------------------------------------------------------------------
\* COCOEvalCallback.evaluate with ranks that fail
\* (cv/efficientdet/callback/eval_callback.py, 67-125): nothing in evaluate
\* catches an exception or bounds the wait of gather and Barrier
\* ------------------------------------------------------------------------

\* lines 68-103: an exception in the evaluation loop ends the rank
BarRaise(r) ==
    /\ bar_pc[r] = "eval_loop"
    /\ bar_pc' = [bar_pc EXCEPT ![r] = "raised"]
    /\ UNCHANGED <<bar_started, bar_loops, bar_gathered, bar_entered, bar_passed, bar_metrics>>
    /\ UNCHANGED bar_frame

BarFailNext ==
    \/ BarNext
    \/ \E r \in Ranks : BarRaise(r)

\* the ranks that have raised
BarRaised == {r \in Ranks : bar_pc[r] = "raised"}

\* rank r waits in a call that does not return in this state
BarBlocked(r) ==
    \/ bar_pc[r] = "in_barrier" /\ ~barrier_open(r, bar_entered)
    \/ /\ bar_pc[r] = "gather"
       /\ is_main_process(r, TRUE)
       /\ \E q \in Ranks \ {r} : bar_gathered[q] <= bar_gathered[r]

\* C27: when a rank has raised in the loop of an evaluate call, no rank
\* returns from that evaluate call: the other ranks get as far as the gather
\* or the barrier and wait there.
C27_FailedRankHangsPeers ==
    \A f \in BarRaised :
        \A q \in Ranks :
            /\ bar_passed[q] < bar_started[f]
            /\ (q \notin BarRaised /\ bar_started[q] = bar_started[f]
                /\ bar_pc[q] = "in_barrier") => BarBlocked(q)

\* one rank has raised in its second evaluate, every other rank waits in the
\* gather or the barrier, and no step is possible
C27_Witness ==
    /\ BarRaised = {1}
    /\ bar_started[1] = 2
    /\ \A q \in Ranks \ {1} : BarBlocked(q)
    /\ bar_pc[0] = "gather"
    /\ ~ENABLED BarFailNext

\* ------------------------------------------------------------------------
\* Two iterations of one DataSource, interleaved
\* (cv/efficientdet/dataloader/datasource.py, __iter__ and __next__):
\* iter(data_source) hands out the object itself, so every handle calls
\* __next__ of the same object
\* ------------------------------------------------------------------------

\* the handles: the first and the second iter(data_source)
ItHandles == {1, 2}

\* the constructed objects the iterations run over
ItSources ==
    {DataSource_init(p, d).self :
        <<p, d>> \in {<<p, d>> \in SeqsUpTo(PatternNames, MaxShards) \X SeqsUpTo(DirNames, MaxShards) :
                        /\ Len(p) > 0
                        /\ Len(d) \in {0, Len(p)}
                        /\ \A i \in DOMAIN d : d[i] = (IF i % 2 = 1 THEN "/data/a" ELSE "/data/b")}}

ItInit ==
    /\ it_ds \in ItSources
    /\ it_iters = 0
    /\ it_before = <<>>
    /\ it_since = <<>>
    /\ it_stop = {}

ItIdle ==
    /\ it_ds = NoDataSource
    /\ it_iters = 0
    /\ it_before = <<>>
    /\ it_since = <<>>
    /\ it_stop = {}

\* iter(data_source): the next handle is taken, at any point of the
\* iteration in progress
ItIter ==
    /\ it_iters < Cardinality(ItHandles)
    /\ it_stop = {}
    /\ it_ds' = DataSource_iter(it_ds)
    /\ it_iters' = it_iters + 1
    /\ it_before' = it_before \o it_since
    /\ it_since' = <<>>
    /\ UNCHANGED it_stop
    /\ UNCHANGED it_frame

\* next(h) through a handle taken before
ItNext(h) ==
    /\ h <= it_iters
    /\ h \notin it_stop
    /\ LET r == DataSource_next(it_ds)
       IN /\ it_ds' = r.self
          /\ it_since' = IF r.exc = "none" THEN Append(it_since, <<h, r.ret>>) ELSE it_since
          /\ it_stop' = IF r.exc = "none" THEN it_stop ELSE it_stop \cup {h}
    /\ UNCHANGED <<it_iters, it_before>>
    /\ UNCHANGED it_frame

ItNextRel ==
    \/ ItIter
    \/ \E h \in ItHandles : ItNext(h)

\* C28: the handles of a DataSource share its one cursor. Taking a handle
\* puts the cursor back to the start for every handle; from then on the
\* elements come in order whichever handle asks, and all handles together
\* get the sequence once.
C28_SharedCursor ==
    it_iters >= 1 =>
        /\ it_ds.n = Len(it_since)
        /\ \A i \in DOMAIN it_since :
              it_since[i][2] = <<it_ds.tfrecord_patterns[i], it_ds.image_dirs[i]>>
        /\ it_stop # {} => Len(it_since) = Len(it_ds.tfrecord_patterns)

\* the first handle had yielded two elements when the second was taken; the
\* first then yielded element 1 again, the second element 2, the first
\* element 3, and both are exhausted
C28_Witness ==
    /\ it_iters = 2
    /\ Len(it_before) = 2
    /\ Len(it_since) = 3
    /\ it_since[1][1] = 1 /\ it_since[2][1] = 2 /\ it_since[3][1] = 1
    /\ it_since[1][2] = it_before[1][2]
    /\ it_since[1][2] # it_since[2][2]
    /\ it_stop = ItHandles

\* C29: an override call that raises leaves the Config as it was before the
\* call.
C29_FailedOverrideChangesNothing ==
    (cfg_pc = "done" /\ cfg_exc # "none") => cfg = cfg_old

\* the same for the calls rejected before _update starts: a string that is
\* rejected as invalid, a yaml file that cannot be loaded, an argument that is
\* neither a string nor a dict (this part holds)
C29_RejectedArgumentChangesNothing ==
    (cfg_pc = "done" /\ cfg_exc # "none"
        /\ \/ cfg_arg[1] \notin {"str", "dict"}
           \/ cfg_arg[1] = "str" /\ "=" \notin Range(cfg_arg[2])
           \/ cfg_arg[1] = "str" /\ parse_from_str(cfg_arg[2]).exc # "none")
        => cfg = cfg_old

\* C30: no rank reaches a graph dump while the results directory is missing:
\* the directory made by rank 0 in setup_env is there when any rank opens
\* train_graph.json or eval_graph.json in it.
C30_DirExistsBeforeDump ==
    \A r \in Ranks : wr_exc[r] # "FileNotFoundError"

\* the part that holds: the main process, which makes the directory in its
\* own setup_env, finds it at its own dumps
C30_MainProcessFindsDir ==
    /\ wr_exc[0] = "none"
    /\ \A w \in wr_writes : wr_dir_exists

Init == DSInit /\ CfgInit /\ DetInit /\ CmInit /\ CmrInit /\ BgInit /\ LdInit /\ GmInit /\ TpInit /\ EvInit /\ InfInit /\ WrInit /\ BarInit /\ RsInit /\ CkInit /\ RpInit /\ EmaInit /\ StInit /\ PlInit /\ ItInit

Next ==
    \/ DSConstruct \/ DSLen \/ DSIter \/ DSNext
    \/ CfgOverride \/ CfgOverrideValue
    \/ DetGet
    \/ CmBuild
    \/ CmrRead
    \/ BgNext
    \/ LdGet
    \/ GmGet
    \/ TpLayer \/ TpEnd
    \/ EvEpochEnd
    \/ InfMain
    \/ WrNext
    \/ BarNext \/ BarFailNext
    \/ RsRestore \/ RsSetUpFit \/ RsFinished \/ RsFitEpoch \/ RsFitEnd \/ RsInterrupt
    \/ CkEpochEnd
    \/ RpCall
    \/ EmaTrainStep \/ EmaSwapIn \/ EmaSetWeights \/ EmaRun \/ EmaSwapOut
    \/ StStarted \/ StLoadLabels \/ StDispatch \/ StSuccess \/ StExit
    \/ PlNext
    \/ ItNextRel

Spec == Init /\ [][Next]_vars

InitDataSource ==
    /\ CfgIdle
    /\ DetIdle
    /\ CmIdle
    /\ CmrIdle
    /\ BgIdle
    /\ LdIdle
    /\ GmIdle
    /\ TpIdle
    /\ EvIdle
    /\ InfIdle
    /\ WrIdle
    /\ BarIdle
    /\ RsIdle
    /\ CkIdle
    /\ RpIdle
    /\ EmaIdle
    /\ StIdle
    /\ PlIdle
    /\ ItIdle
    /\ DSInit

SpecDataSource == InitDataSource /\ [][DSNextRel]_vars

InitConfig ==
    /\ DSIdle
    /\ DetIdle
    /\ CmIdle
    /\ CmrIdle
    /\ BgIdle
    /\ LdIdle
    /\ GmIdle
    /\ TpIdle
    /\ EvIdle
    /\ InfIdle
    /\ WrIdle
    /\ BarIdle
    /\ RsIdle
    /\ CkIdle
    /\ RpIdle
    /\ EmaIdle
    /\ StIdle
    /\ PlIdle
    /\ ItIdle
    /\ CfgInit

SpecConfig == InitConfig /\ [][CfgOverride]_vars

SpecConfigValue == InitConfig /\ [][CfgOverrideValue]_vars

InitDetection ==
    /\ DSIdle
    /\ CfgIdle
    /\ CmIdle
    /\ CmrIdle
    /\ BgIdle
    /\ LdIdle
    /\ GmIdle
    /\ TpIdle
    /\ EvIdle
    /\ InfIdle
    /\ WrIdle
    /\ BarIdle
    /\ RsIdle
    /\ CkIdle
    /\ RpIdle
    /\ EmaIdle
    /\ StIdle
    /\ PlIdle
    /\ ItIdle
    /\ DetInit

SpecDetection == InitDetection /\ [][DetGet]_vars

InitClassmap ==
    /\ DSIdle
    /\ CfgIdle
    /\ DetIdle
    /\ CmrIdle
    /\ BgIdle
    /\ LdIdle
    /\ GmIdle
    /\ TpIdle
    /\ EvIdle
    /\ InfIdle
    /\ WrIdle
    /\ BarIdle
    /\ RsIdle
    /\ CkIdle
    /\ RpIdle
    /\ EmaIdle
    /\ StIdle
    /\ PlIdle
    /\ ItIdle
    /\ CmInit

SpecClassmap == InitClassmap /\ [][CmBuild]_vars

InitClassmapRead ==
    /\ DSIdle
    /\ CfgIdle
    /\ DetIdle
    /\ CmIdle
    /\ BgIdle
    /\ LdIdle
    /\ GmIdle
    /\ TpIdle
    /\ EvIdle
    /\ InfIdle
    /\ WrIdle
    /\ BarIdle
    /\ RsIdle
    /\ CkIdle
    /\ RpIdle
    /\ EmaIdle
    /\ StIdle
    /\ PlIdle
    /\ ItIdle
    /\ CmrInit

SpecClassmapRead == InitClassmapRead /\ [][CmrRead]_vars

InitBatchGenerator ==
    /\ DSIdle
    /\ CfgIdle
    /\ DetIdle
    /\ CmIdle
    /\ CmrIdle
    /\ LdIdle
    /\ GmIdle
    /\ TpIdle
    /\ EvIdle
    /\ InfIdle
    /\ WrIdle
    /\ BarIdle
    /\ RsIdle
    /\ CkIdle
    /\ RpIdle
    /\ EmaIdle
    /\ StIdle
    /\ PlIdle
    /\ ItIdle
    /\ BgInit

SpecBatchGenerator == InitBatchGenerator /\ [][BgNext]_vars

InitLabelDict ==
    /\ DSIdle
    /\ CfgIdle
    /\ DetIdle
    /\ CmIdle
    /\ CmrIdle
    /\ BgIdle
    /\ GmIdle
    /\ TpIdle
    /\ EvIdle
    /\ InfIdle
    /\ WrIdle
    /\ BarIdle
    /\ RsIdle
    /\ CkIdle
    /\ RpIdle
    /\ EmaIdle
    /\ StIdle
    /\ PlIdle
    /\ ItIdle
    /\ LdInit

SpecLabelDict == InitLabelDict /\ [][LdGet]_vars

InitGetModel ==
    /\ DSIdle
    /\ CfgIdle
    /\ DetIdle
    /\ CmIdle
    /\ CmrIdle
    /\ BgIdle
    /\ LdIdle
    /\ TpIdle
    /\ EvIdle
    /\ InfIdle
    /\ WrIdle
    /\ BarIdle
    /\ RsIdle
    /\ CkIdle
    /\ RpIdle
    /\ EmaIdle
    /\ StIdle
    /\ PlIdle
    /\ ItIdle
    /\ GmInit

SpecGetModel == InitGetModel /\ [][GmGet]_vars

InitTransplant ==
    /\ DSIdle
    /\ CfgIdle
    /\ DetIdle
    /\ CmIdle
    /\ CmrIdle
    /\ BgIdle
    /\ LdIdle
    /\ GmIdle
    /\ EvIdle
    /\ InfIdle
    /\ WrIdle
    /\ BarIdle
    /\ RsIdle
    /\ CkIdle
    /\ RpIdle
    /\ EmaIdle
    /\ StIdle
    /\ PlIdle
    /\ ItIdle
    /\ TpInit

SpecTransplant == InitTransplant /\ [][TpNext]_vars

InitEvalSchedule ==
    /\ DSIdle
    /\ CfgIdle
    /\ DetIdle
    /\ CmIdle
    /\ CmrIdle
    /\ BgIdle
    /\ LdIdle
    /\ GmIdle
    /\ TpIdle
    /\ InfIdle
    /\ WrIdle
    /\ BarIdle
    /\ RsIdle
    /\ CkIdle
    /\ RpIdle
    /\ EmaIdle
    /\ StIdle
    /\ PlIdle
    /\ ItIdle
    /\ EvInit

SpecEvalSchedule == InitEvalSchedule /\ [][EvEpochEnd]_vars

InitInference ==
    /\ DSIdle
    /\ CfgIdle
    /\ DetIdle
    /\ CmIdle
    /\ CmrIdle
    /\ BgIdle
    /\ LdIdle
    /\ GmIdle
    /\ TpIdle
    /\ EvIdle
    /\ WrIdle
    /\ BarIdle
    /\ RsIdle
    /\ CkIdle
    /\ RpIdle
    /\ EmaIdle
    /\ StIdle
    /\ PlIdle
    /\ ItIdle
    /\ InfInit

SpecInference == InitInference /\ [][InfMain]_vars

InitResultsDir ==
    /\ DSIdle
    /\ CfgIdle
    /\ DetIdle
    /\ CmIdle
    /\ CmrIdle
    /\ BgIdle
    /\ LdIdle
    /\ GmIdle
    /\ TpIdle
    /\ EvIdle
    /\ InfIdle
    /\ BarIdle
    /\ RsIdle
    /\ CkIdle
    /\ RpIdle
    /\ EmaIdle
    /\ StIdle
    /\ PlIdle
    /\ ItIdle
    /\ WrInit

SpecResultsDir == InitResultsDir /\ [][WrNext]_vars

InitEvalBarrier ==
    /\ DSIdle
    /\ CfgIdle
    /\ DetIdle
    /\ CmIdle
    /\ CmrIdle
    /\ BgIdle
    /\ LdIdle
    /\ GmIdle
    /\ TpIdle
    /\ EvIdle
    /\ InfIdle
    /\ WrIdle
    /\ RsIdle
    /\ CkIdle
    /\ RpIdle
    /\ EmaIdle
    /\ StIdle
    /\ PlIdle
    /\ ItIdle
    /\ BarInit

SpecEvalBarrier == InitEvalBarrier /\ [][BarNext]_vars

SpecEvalBarrierFail == InitEvalBarrier /\ [][BarFailNext]_vars

InitResume ==
    /\ DSIdle
    /\ CfgIdle
    /\ DetIdle
    /\ CmIdle
    /\ CmrIdle
    /\ BgIdle
    /\ LdIdle
    /\ GmIdle
    /\ TpIdle
    /\ EvIdle
    /\ InfIdle
    /\ WrIdle
    /\ BarIdle
    /\ CkIdle
    /\ RpIdle
    /\ EmaIdle
    /\ StIdle
    /\ PlIdle
    /\ ItIdle
    /\ RsInit

SpecResume == InitResume /\ [][RsNext]_vars

InitEffCheckpoint ==
    /\ DSIdle
    /\ CfgIdle
    /\ DetIdle
    /\ CmIdle
    /\ CmrIdle
    /\ BgIdle
    /\ LdIdle
    /\ GmIdle
    /\ TpIdle
    /\ EvIdle
    /\ InfIdle
    /\ WrIdle
    /\ BarIdle
    /\ RsIdle
    /\ RpIdle
    /\ EmaIdle
    /\ StIdle
    /\ PlIdle
    /\ ItIdle
    /\ CkInit

SpecEffCheckpoint == InitEffCheckpoint /\ [][CkEpochEnd]_vars

InitRemovePrefix ==
    /\ DSIdle
    /\ CfgIdle
    /\ DetIdle
    /\ CmIdle
    /\ CmrIdle
    /\ BgIdle
    /\ LdIdle
    /\ GmIdle
    /\ TpIdle
    /\ EvIdle
    /\ InfIdle
    /\ WrIdle
    /\ BarIdle
    /\ RsIdle
    /\ CkIdle
    /\ EmaIdle
    /\ StIdle
    /\ PlIdle
    /\ ItIdle
    /\ RpInit

SpecRemovePrefix == InitRemovePrefix /\ [][RpCall]_vars

InitEmaSwap ==
    /\ DSIdle
    /\ CfgIdle
    /\ DetIdle
    /\ CmIdle
    /\ CmrIdle
    /\ BgIdle
    /\ LdIdle
    /\ GmIdle
    /\ TpIdle
    /\ EvIdle
    /\ InfIdle
    /\ WrIdle
    /\ BarIdle
    /\ RsIdle
    /\ CkIdle
    /\ RpIdle
    /\ StIdle
    /\ PlIdle
    /\ ItIdle
    /\ EmaInit

SpecEmaSwap == InitEmaSwap /\ [][EmaNext]_vars

InitInferenceStatus ==
    /\ DSIdle
    /\ CfgIdle
    /\ DetIdle
    /\ CmIdle
    /\ CmrIdle
    /\ BgIdle
    /\ LdIdle
    /\ GmIdle
    /\ TpIdle
    /\ EvIdle
    /\ InfIdle
    /\ WrIdle
    /\ BarIdle
    /\ RsIdle
    /\ CkIdle
    /\ RpIdle
    /\ EmaIdle
    /\ PlIdle
    /\ ItIdle
    /\ StInit

SpecInferenceStatus == InitInferenceStatus /\ [][StNext]_vars

InitPretrainedLoad ==
    /\ DSIdle
    /\ CfgIdle
    /\ DetIdle
    /\ CmIdle
    /\ CmrIdle
    /\ BgIdle
    /\ LdIdle
    /\ GmIdle
    /\ TpIdle
    /\ EvIdle
    /\ InfIdle
    /\ WrIdle
    /\ BarIdle
    /\ RsIdle
    /\ CkIdle
    /\ RpIdle
    /\ EmaIdle
    /\ StIdle
    /\ ItIdle
    /\ PlInit

SpecPretrainedLoad == InitPretrainedLoad /\ [][PlNext]_vars

InitSharedCursor ==
    /\ DSIdle
    /\ CfgIdle
    /\ DetIdle
    /\ CmIdle
    /\ CmrIdle
    /\ BgIdle
    /\ LdIdle
    /\ GmIdle
    /\ TpIdle
    /\ EvIdle
    /\ InfIdle
    /\ WrIdle
    /\ BarIdle
    /\ RsIdle
    /\ CkIdle
    /\ RpIdle
    /\ EmaIdle
    /\ StIdle
    /\ PlIdle
    /\ ItInit

SpecSharedCursor == InitSharedCursor /\ [][ItNextRel]_vars
=============================================================================
